---- MODULE Spec2Model ----
(***************************************************************************)
(* Model of the limit-up backtest core of a_quant:                         *)
(*   backtest/account.py   Position, Account                               *)
(*   backtest/engine.py    MultiStockBacktestEngine.run                    *)
(*   strategies/multi_limit_up_strategy.py  MultiLimitUpStrategy           *)
(*                                                                         *)
(* Money is an integer number of UNITs, 1 UNIT = 10^-7 yuan, so that every *)
(* product of a whole-lot volume, a price in cents and the configured      *)
(* rates (0.001, 0.0001) is exact.  Prices of bars are integers in cents.  *)
(* A date string is a record [ymd, dashed]: ymd orders as the YYYYMMDD     *)
(* text does, dashed tells the YYYY-MM-DD spelling from the YYYYMMDD one.  *)
(***************************************************************************)
EXTENDS Integers, Sequences, FiniteSets, TLC

\* ------------------------------------------------------------------------
\* Bounds of the model
\* ------------------------------------------------------------------------
NumDays == 2            \* trading days in the calendar of a run
MaxBars == 3            \* intraday bars in a freely drawn series
MaxCalls == 4           \* Account calls in a free call sequence
max_position_count == 2 \* slot count given to Account (MAX_POSITION_COUNT; config.py
                        \* sets 5, scaled down here together with the symbol universe)
InitCapitalYuan == 100  \* init_capital handed to the engine, in yuan
MaxTrades == 3          \* longest ledger handed to BacktestMetrics on its own
MaxRetries == 4         \* largest max_retries given to retry_decorator

\* ------------------------------------------------------------------------
\* Configuration (config/config.py) and fixed-point scale
\* ------------------------------------------------------------------------
BP == 10000                 \* rates are written in 1/10000
COMMISSION_RATE_BP == 1     \* COMMISSION_RATE = 0.0001
STAMP_DUTY_RATE_BP == 10    \* STAMP_DUTY_RATE = 0.001
SLIPPAGE_RATE_BP == 10      \* SLIPPAGE_RATE = 0.001
MIN_COMMISSION_YUAN == 5    \* max(..., 5) in Account.buy / Account.sell
T_PLUS_1 == TRUE
MIN_TRADE_VOLUME == 100
MAIN_BOARD_LIMIT_UP_RATE == 98      \* 0.098, in 1/1000
STAR_BOARD_LIMIT_UP_RATE == 198     \* 0.198, in 1/1000
BJ_BOARD_LIMIT_UP_RATE == 0         \* imported by the strategy, absent from config.py
FILTER_BSE_STOCK == TRUE            \* imported by the strategy, absent from config.py
FILTER_STAR_BOARD == FALSE          \* imported by the strategy, absent from config.py
FILTER_MAIN_BOARD == FALSE          \* imported by the strategy, absent from config.py
TOLERANCE_PM == 999                 \* limit_up_price_tolerance = 0.999, in 1/1000
SELL_TYPE_AFTER_BLOWUP == "open"

CENT == 10 * BP             \* UNITs in one cent
YUAN == 100 * CENT          \* UNITs in one yuan
init_capital == InitCapitalYuan * YUAN

\* ------------------------------------------------------------------------
\* Generic helpers
\* ------------------------------------------------------------------------
Max(a, b) == IF a >= b THEN a ELSE b
Min(a, b) == IF a <= b THEN a ELSE b
Range(s) == {s[i] : i \in 1..Len(s)}
Take(s, n) == SubSeq(s, 1, Min(n, Len(s)))

\* all orderings of a finite set, as sequences without repetition
Perms(S) ==
    {f \in [1..Cardinality(S) -> S] : \A i, j \in 1..Cardinality(S) : i # j => f[i] # f[j]}

\* round(x / m) to the nearest integer, ties to the even one (Python round)
RoundDiv(x, m) ==
    LET q == x \div m
        r == x % m
    IN  IF 2 * r < m THEN q
        ELSE IF 2 * r > m THEN q + 1
        ELSE IF q % 2 = 0 THEN q ELSE q + 1

\* ------------------------------------------------------------------------
\* Symbols: ts_code "cccccc.EX" as [code, exch]; code is the six-digit number
\* ------------------------------------------------------------------------
S_MAIN_A == [code |-> 2, exch |-> "SZ"]          \* 000002.SZ
S_STAR == [code |-> 300001, exch |-> "SZ"]       \* 300001.SZ
S_MAIN_B == [code |-> 600003, exch |-> "SH"]     \* 600003.SH
Symbols == {S_MAIN_A, S_STAR, S_MAIN_B}
S_BSE == [code |-> 830001, exch |-> "BJ"]        \* 830001.BJ
S_KCB == [code |-> 688001, exch |-> "SH"]        \* 688001.SH

\* string order of two ts_codes of equal width
SymLess(a, b) == a.code < b.code

\* ------------------------------------------------------------------------
\* Dates
\* ------------------------------------------------------------------------
Date(n, d) == [ymd |-> n, dashed |-> d]
_unify_date_format(date_str) == [ymd |-> date_str.ymd, dashed |-> FALSE]
\* str "<" and "<=" on date texts of one month: two texts of the same
\* spelling order by day, and "YYYY-MM-DD" sorts before "YYYYMMDD" ("-" < "0")
DateLess(a, b) ==
    IF a.dashed = b.dashed THEN a.ymd < b.ymd ELSE a.dashed
DateLeq(a, b) == a = b \/ DateLess(a, b)
\* the calendar: get_trade_dates returns cal_date as text, ascending
trade_dates == [i \in 1..NumDays |-> Date(i, TRUE)]

\* The calendar of the vendor (fetch_trade_cal): rows [cal_date, is_open].
\* OpenCal has the NumDays trading days and a closed day after them.
OpenCal ==
    [i \in 1..(NumDays + 1) |->
        [cal_date |-> Date(i, TRUE), is_open |-> IF i <= NumDays THEN 1 ELSE 0]]
ClosedCal == [i \in 1..NumDays |-> [cal_date |-> Date(i, TRUE), is_open |-> 0]]
RawCals == {<<>>, ClosedCal, OpenCal}

\* data_cleaner.get_trade_dates: cal_date of the rows with is_open = 1
get_trade_dates(cal) ==
    LET open == SelectSeq(cal, LAMBDA row : row.is_open = 1)
    IN  [i \in 1..Len(open) |-> open[i].cal_date]

\* init_trade_cal without the test of the list of trading days
init_trade_cal_unchecked(raw_cal_df) ==
    IF raw_cal_df = <<>> THEN [raised |-> TRUE, trade_dates |-> <<>>]
    ELSE [raised |-> FALSE, trade_dates |-> get_trade_dates(raw_cal_df)]

\* MultiStockBacktestEngine.init_trade_cal
init_trade_cal(raw_cal_df) ==
    IF raw_cal_df = <<>> THEN [raised |-> TRUE, trade_dates |-> <<>>]
    ELSE IF get_trade_dates(raw_cal_df) = <<>> THEN [raised |-> TRUE, trade_dates |-> <<>>]
    ELSE [raised |-> FALSE, trade_dates |-> get_trade_dates(raw_cal_df)]

\* ------------------------------------------------------------------------
\* Market data
\*   daily row    [ts_code, open, high, low, close, pre_close]   (cents)
\*   intraday row [trade_time, high, low, close]                 (cents)
\* A frame is the sequence of its rows, in row order.
\* ------------------------------------------------------------------------
NoTime == 0     \* None returned by the intraday scans; trade_time is >= 1

RowsOf(df, ts) == SelectSeq(df, LAMBDA r : r.ts_code = ts)
HasRow(df, ts) == \E i \in 1..Len(df) : df[i].ts_code = ts
\* stock_df.iloc[0] of daily_df[daily_df["ts_code"] == ts]
RowOf(df, ts) == df[CHOOSE i \in 1..Len(df) :
                       /\ df[i].ts_code = ts
                       /\ \A j \in 1..(i - 1) : df[j].ts_code # ts]

\* ------------------------------------------------------------------------
\* MultiLimitUpStrategy: limit price
\* ------------------------------------------------------------------------
IsBse(ts_code) ==
    \/ (ts_code.code \div 10000) \in {83, 87, 88}
    \/ ts_code.exch = "BJ"

get_limit_up_rate_by_ts_code(ts_code) ==
    IF IsBse(ts_code) THEN BJ_BOARD_LIMIT_UP_RATE
    ELSE IF (ts_code.code \div 10000) = 30 \/ (ts_code.code \div 1000) = 688
         THEN STAR_BOARD_LIMIT_UP_RATE
    ELSE MAIN_BOARD_LIMIT_UP_RATE

\* calc_limit_up_price without the test of pre_close
calc_limit_up_price_noguard(ts_code, pre_close) ==
    RoundDiv(pre_close * (1000 + get_limit_up_rate_by_ts_code(ts_code)), 1000)

calc_limit_up_price(ts_code, pre_close) ==
    IF pre_close <= 0 THEN 0
    ELSE RoundDiv(pre_close * (1000 + get_limit_up_rate_by_ts_code(ts_code)), 1000)

\* BaseStrategy.calc_limit_up_price, which the strategy overrides: the board
\* is read from the text of ts_code and the rate is divided by 100
base_limit_rate(ts_code) ==
    IF ts_code.exch = "BJ" THEN BJ_BOARD_LIMIT_UP_RATE
    ELSE IF \/ (ts_code.code \div 1000) \in {300, 301, 302}
            \/ ((ts_code.code \div 100000) = 3 /\ ts_code.exch = "SZ")
         THEN STAR_BOARD_LIMIT_UP_RATE
    ELSE IF (ts_code.code \div 1000) = 688 THEN STAR_BOARD_LIMIT_UP_RATE
    ELSE MAIN_BOARD_LIMIT_UP_RATE

base_calc_limit_up_price(ts_code, pre_close) ==
    IF pre_close = 0 \/ pre_close <= 0 THEN 0
    ELSE RoundDiv(pre_close * (100 * 1000 + base_limit_rate(ts_code)), 100 * 1000)

_filter_stock_by_type(ts_code) ==
    LET is_bse == IsBse(ts_code)
        is_star_board == (ts_code.code \div 1000) \in {300, 688}
        is_main_board == ~(is_bse \/ is_star_board)
    IN  IF FILTER_BSE_STOCK /\ is_bse THEN FALSE
        ELSE IF FILTER_STAR_BOARD /\ is_star_board THEN FALSE
        ELSE IF FILTER_MAIN_BOARD /\ is_main_board THEN FALSE
        ELSE TRUE

\* x >= limit_price * tolerance
AtLimit(x, limit_price) == x * 1000 >= limit_price * TOLERANCE_PM

\* ------------------------------------------------------------------------
\* MultiLimitUpStrategy: intraday scans
\* ------------------------------------------------------------------------
RECURSIVE InsertByTime(_, _)
InsertByTime(sorted, row) ==
    IF sorted = <<>> THEN <<row>>
    ELSE IF row.trade_time < Head(sorted).trade_time THEN <<row>> \o sorted
    ELSE <<Head(sorted)>> \o InsertByTime(Tail(sorted), row)

RECURSIVE SortByTime(_)
\* min_df.sort_values("trade_time")
SortByTime(min_df) ==
    IF min_df = <<>> THEN <<>>
    ELSE InsertByTime(SortByTime(SubSeq(min_df, 1, Len(min_df) - 1)), min_df[Len(min_df)])

MinLow(min_df) ==
    CHOOSE m \in {min_df[i].low : i \in 1..Len(min_df)} :
        \A i \in 1..Len(min_df) : m <= min_df[i].low

RECURSIVE ReopenScan(_, _, _)
\* the loop "for i, row in df.iterrows()" of check_reopen, from row i on
ReopenScan(df, i, limit_price) ==
    IF i > Len(df) THEN NoTime
    ELSE IF ~AtLimit(df[i].low, limit_price)
         THEN IF AtLimit(df[i].close, limit_price) THEN df[i].trade_time
              ELSE IF i + 1 <= Len(df) /\ AtLimit(df[i + 1].close, limit_price)
                   THEN df[i + 1].trade_time
              ELSE ReopenScan(df, i + 1, limit_price)
    ELSE ReopenScan(df, i + 1, limit_price)

\* check_reopen scanning the rows as they come, without sort_values
check_reopen_unsorted(min_df, limit_price, daily_row) ==
    IF ~AtLimit(daily_row.open, limit_price) THEN NoTime
    ELSE IF AtLimit(MinLow(min_df), limit_price) THEN NoTime
    ELSE ReopenScan(min_df, 1, limit_price)


check_reopen(min_df, limit_price, daily_row) ==
    IF ~AtLimit(daily_row.open, limit_price) THEN NoTime
    ELSE IF AtLimit(MinLow(min_df), limit_price) THEN NoTime
    ELSE ReopenScan(SortByTime(min_df), 1, limit_price)
\* the first qualifying row in row order, without sort_values
get_first_limit_time_rowfirst(min_df, limit_price) ==
    LET hit == SelectSeq(min_df, LAMBDA r : AtLimit(r.high, limit_price))
    IN  IF hit = <<>> THEN NoTime
        ELSE hit[1].trade_time

get_first_limit_time(min_df, limit_price) ==
    LET hit == SelectSeq(min_df, LAMBDA r : AtLimit(r.high, limit_price))
    IN  IF hit = <<>> THEN NoTime
        ELSE SortByTime(hit)[1].trade_time

\* ------------------------------------------------------------------------
\* MultiLimitUpStrategy.select_buy_stocks
\*   min_data_dict: [Symbols -> intraday frame], <<>> for "no data"
\*   hits: the dict {ts_code: time} as the sequence of its items, in
\*   insertion order
\* ------------------------------------------------------------------------
\* (pre_close * (1 + rates)).round(2) of the filtered frame
limit_up_price_col(row) ==
    RoundDiv(row.pre_close * (1000 + get_limit_up_rate_by_ts_code(row.ts_code)), 1000)

\* the candidate pool without the test of the daily high
IsCandidate_nohigh(row) ==
    /\ _filter_stock_by_type(row.ts_code)
    /\ row.pre_close > 0

\* a row of daily_df_filtered that is kept in candidates
IsCandidate(row) ==
    /\ _filter_stock_by_type(row.ts_code)
    /\ row.pre_close > 0
    /\ AtLimit(row.high, limit_up_price_col(row))

\* hits[ts] = t on an insertion-ordered dict
HitsPut(hits, ts, t) ==
    IF \E i \in 1..Len(hits) : hits[i].ts_code = ts
    THEN [i \in 1..Len(hits) |->
            IF hits[i].ts_code = ts THEN [ts_code |-> ts, t |-> t] ELSE hits[i]]
    ELSE Append(hits, [ts_code |-> ts, t |-> t])

\* the body of "for row in candidates.itertuples()": the time entered into
\* hits for this row, NoTime when the row is skipped
EntryTime(row, min_df) ==
    LET limit_price == limit_up_price_col(row)
    IN  IF min_df = <<>> THEN NoTime
        ELSE IF AtLimit(row.open, limit_price)
             THEN check_reopen(min_df, limit_price, row)
        ELSE get_first_limit_time(min_df, limit_price)

\* the loop over the rows taken in the order of the keys of min_data_dict
HitRows_dict_order(candidates, min_data_dict) ==
    [i \in 1..Len(min_data_dict) |->
        candidates[CHOOSE k \in 1..Len(candidates) :
                       candidates[k].ts_code = min_data_dict[i].ts_code]]

\* the rows visited by "for row in candidates.itertuples(index=False)"
HitRows(candidates, min_data_dict) == candidates

\* min_data_dict.get(ts, pd.DataFrame()) on the dict as the sequence of its
\* items [ts_code, df]
DictGet(dict, ts) ==
    IF \E i \in 1..Len(dict) : dict[i].ts_code = ts
    THEN dict[CHOOSE i \in 1..Len(dict) : dict[i].ts_code = ts].df
    ELSE <<>>

RECURSIVE CollectHits(_, _, _)
CollectHits(candidates, min_data_dict, hits) ==
    IF candidates = <<>> THEN hits
    ELSE LET row == Head(candidates)
             t == EntryTime(row, DictGet(min_data_dict, row.ts_code))
         IN  CollectHits(Tail(candidates), min_data_dict,
                         IF t = NoTime THEN hits ELSE HitsPut(hits, row.ts_code, t))

RECURSIVE InsertHit_unstable(_, _)
\* a sort that puts a later item before the earlier items of equal time
InsertHit_unstable(sorted, item) ==
    IF sorted = <<>> THEN <<item>>
    ELSE IF item.t <= Head(sorted).t THEN <<item>> \o sorted
    ELSE <<Head(sorted)>> \o InsertHit_unstable(Tail(sorted), item)


RECURSIVE InsertHit(_, _)
InsertHit(sorted, item) ==
    IF sorted = <<>> THEN <<item>>
    ELSE IF item.t < Head(sorted).t THEN <<item>> \o sorted
    ELSE <<Head(sorted)>> \o InsertHit(Tail(sorted), item)

RECURSIVE SortHits(_)
\* sorted(hits.items(), key=lambda x: x[1]): ascending and stable
SortHits(hits) ==
    IF hits = <<>> THEN <<>>
    ELSE InsertHit(SortHits(SubSeq(hits, 1, Len(hits) - 1)), hits[Len(hits)])

\* the calendar day of the rows that get_kline_min_by_stock_date(ts_code,
\* trade_date) selects: "WHERE ts_code = %s AND trade_date = %s"
MinBarsDay(trade_date) == trade_date.ymd

\* _get_min_df run by a worker for a cache miss: the gateway's frame, which
\* reaches the caller as an empty result when the gateway has none or raises
_get_min_df(ts, src) == src[ts]

\* a worker's _get_min_df call that raises: the source holds FetchError for
\* the symbol
FetchError == <<[trade_time |-> 0, high |-> 0, low |-> 0, close |-> 0]>>
FetchRaises(ts, src) == src[ts] = FetchError

\* "try: min_df = future.result() ... except Exception: pd.DataFrame()"
FutureResult(ts, src) == IF FetchRaises(ts, src) THEN <<>> ELSE _get_min_df(ts, src)

\* the as_completed loop left at the first future that raised
Collected_until_raise(finished, src) ==
    IF \E i \in 1..Len(finished) : FetchRaises(finished[i], src)
    THEN SubSeq(finished, 1,
                (CHOOSE i \in 1..Len(finished) :
                    /\ FetchRaises(finished[i], src)
                    /\ \A j \in 1..(i - 1) : ~FetchRaises(finished[j], src)) - 1)
    ELSE finished

\* the futures whose results enter min_data_dict: all of them, a raised one
\* as an empty frame
Collected(finished, src) == finished

\* _batch_get_min_df; min_data_cache is the set of its items
\* [ts_code, trade_date, df].  Returns the dict (a frame per requested symbol,
\* <<>> for "None / empty / failed") and the cache afterwards.
\* a cache that is never hit
CacheHas_never(cache, ts, trade_date) == FALSE

CacheHas(cache, ts, trade_date) ==
    \E e \in cache : e.ts_code = ts /\ e.trade_date = trade_date /\ e.df # <<>>
CacheGet(cache, ts, trade_date) ==
    (CHOOSE e \in cache : e.ts_code = ts /\ e.trade_date = trade_date).df

\* the orders in which the fetches of a worker pool can finish
Completions == Perms(Symbols)

\* ts_codes is the sequence candidates.ts_code.unique(); completion lists the
\* symbols in the order in which their fetches would finish (as_completed).
\* The dict gets the cache hits in the order of ts_codes, then the misses in
\* the order of completion.
FinishedBefore(completion, a, b) ==
    \E i, j \in 1..Len(completion) : i < j /\ completion[i] = a /\ completion[j] = b

RECURSIVE InsertCompleted(_, _, _)
InsertCompleted(done, ts, completion) ==
    IF done = <<>> THEN <<ts>>
    ELSE IF FinishedBefore(completion, ts, Head(done)) THEN <<ts>> \o done
    ELSE <<Head(done)>> \o InsertCompleted(Tail(done), ts, completion)

RECURSIVE AsCompleted(_, _)
AsCompleted(cache_misses, completion) ==
    IF cache_misses = <<>> THEN <<>>
    ELSE InsertCompleted(AsCompleted(Tail(cache_misses), completion),
                         Head(cache_misses), completion)

_batch_get_min_df(ts_codes, trade_date, cache, src, completion) ==
    LET cache_hits == SelectSeq(ts_codes, LAMBDA ts : CacheHas(cache, ts, trade_date))
        cache_misses == SelectSeq(ts_codes, LAMBDA ts : ~CacheHas(cache, ts, trade_date))
        finished == Collected(AsCompleted(cache_misses, completion), src)
    IN  [dict |-> [i \in 1..Len(cache_hits) |->
                      [ts_code |-> cache_hits[i],
                       df |-> CacheGet(cache, cache_hits[i], trade_date)]]
                  \o [i \in 1..Len(finished) |->
                      [ts_code |-> finished[i], df |-> FutureResult(finished[i], src)]],
         cache |-> cache \cup
                     {[ts_code |-> ts, trade_date |-> trade_date,
                       df |-> FutureResult(ts, src)] :
                          ts \in {m \in Range(finished) : FutureResult(m, src) # <<>>}}]

\* sorted(hits.items(), key=...)[:available_pos], the symbols only
RankedBuyList(hits, available_pos) ==
    LET top == Take(SortHits(hits), available_pos)
    IN  [i \in 1..Len(top) |-> top[i].ts_code]

\* select_buy_stocks: the returned list, with the hits dict it was cut from
\* and the cache as the call leaves it
select_buy_stocks(trade_date, daily_df, available_pos, cache, src, completion) ==
    IF available_pos <= 0 THEN [buy_stocks |-> <<>>, hits |-> <<>>, cache |-> cache]
    ELSE
    LET candidates == SelectSeq(daily_df, IsCandidate)
        got == IF candidates = <<>> THEN [dict |-> <<>>, cache |-> cache]
               ELSE _batch_get_min_df([i \in 1..Len(candidates) |-> candidates[i].ts_code],
                                      trade_date, cache, src, completion)
        hit_items == CollectHits(HitRows(candidates, got.dict), got.dict, <<>>)
    IN  [buy_stocks |-> RankedBuyList(hit_items, available_pos),
         hits |-> hit_items,
         cache |-> got.cache]

\* ------------------------------------------------------------------------
\* Position  (backtest/account.py)
\*   [ts_code, buy_price, buy_volume, buy_date, hold_days, can_sell,
\*    buy_total_cost]; buy_price and buy_total_cost in UNITs
\* ------------------------------------------------------------------------
NewPosition(ts_code, buy_price, buy_volume, buy_date, buy_total_cost) ==
    [ts_code |-> ts_code, buy_price |-> buy_price, buy_volume |-> buy_volume,
     buy_date |-> _unify_date_format(buy_date), hold_days |-> 0,
     can_sell |-> FALSE, buy_total_cost |-> buy_total_cost]

\* update_can_sell with "<=" for "<": a position is sellable on its buy date
update_can_sell_sameday(position, current_trade_date) ==
    LET current_date == _unify_date_format(current_trade_date)
    IN  [position EXCEPT !.can_sell = DateLeq(position.buy_date, current_date)]


update_can_sell(position, current_trade_date) ==
    LET current_date == _unify_date_format(current_trade_date)
    IN  [position EXCEPT !.can_sell =
            IF T_PLUS_1 THEN DateLess(position.buy_date, current_date) ELSE TRUE]

update_hold_days(position, current_trade_date) ==
    LET current_date == _unify_date_format(current_trade_date)
    IN  [position EXCEPT
            !.hold_days = IF DateLess(position.buy_date, current_date)
                          THEN @ + 1 ELSE @,
            !.can_sell = IF T_PLUS_1 THEN DateLess(position.buy_date, current_date)
                         ELSE TRUE]

\* ------------------------------------------------------------------------
\* Account  (backtest/account.py)
\*   positions: the dict {ts_code: Position} as the sequence of its values,
\*   in insertion order; trade_history and daily_net_value: lists of records;
\*   daily_sold_pnl: {trade_date: {ts_code: pnl}} as a set of
\*   [trade_date, ts_code, pnl]
\* round(x, 2) gives cents, round(x, 4) gives 1/100 of a cent
\* ------------------------------------------------------------------------
Round2(x) == RoundDiv(x, CENT)
Round4(x) == RoundDiv(x, CENT \div 100)

NewAccount ==
    [init_capital |-> init_capital,
     available_cash |-> init_capital,
     total_asset |-> init_capital,
     positions |-> <<>>,
     trade_history |-> <<>>,
     daily_net_value |-> <<>>,
     prev_total_asset |-> init_capital,
     daily_sold_pnl |-> {}]

Held(positions, ts_code) == \E i \in 1..Len(positions) : positions[i].ts_code = ts_code
PosOf(positions, ts_code) ==
    positions[CHOOSE i \in 1..Len(positions) : positions[i].ts_code = ts_code]
HeldSet(positions) == {positions[i].ts_code : i \in 1..Len(positions)}

\* self.positions[ts_code] = position
PosPut(positions, position) ==
    IF Held(positions, position.ts_code)
    THEN [i \in 1..Len(positions) |->
            IF positions[i].ts_code = position.ts_code THEN position ELSE positions[i]]
    ELSE Append(positions, position)

\* del self.positions[ts_code]
PosDel(positions, ts_code) == SelectSeq(positions, LAMBDA q : q.ts_code # ts_code)

\* get_available_position_count counting one slot too many
get_available_position_count_plus1(acct) ==
    max_position_count + 1 - Len(acct.positions)


get_available_position_count(acct) == max_position_count - Len(acct.positions)

\* Account.buy without the "already held" check
AlreadyHeld_never(acct, ts_code) == FALSE

\* "if ts_code in self.positions" of Account.buy
AlreadyHeld(acct, ts_code) == Held(acct.positions, ts_code)

\* price * (1 + SLIPPAGE_RATE) and price * (1 - SLIPPAGE_RATE), UNITs per share
BuyActualPrice(price) == price * (CENT \div BP) * (BP + SLIPPAGE_RATE_BP)

\* the sell price with the slippage added instead of taken off
SellActualPrice_up(price) == price * (CENT \div BP) * (BP + SLIPPAGE_RATE_BP)

SellActualPrice(price) == price * (CENT \div BP) * (BP - SLIPPAGE_RATE_BP)

\* the lot count rounded up instead of floored by int()
LotFloor_up(capital, slots, actual_price) ==
    (capital \div (slots * actual_price * MIN_TRADE_VOLUME) + 1) * MIN_TRADE_VOLUME

\* int(per_position_cash / (actual_price * MIN_TRADE_VOLUME)) * MIN_TRADE_VOLUME
\* with per_position_cash = capital / slots; capital and actual_price in one
\* unit of money
LotFloor(capital, slots, actual_price) ==
    (capital \div (slots * actual_price * MIN_TRADE_VOLUME)) * MIN_TRADE_VOLUME

MaxCanBuy(acct, actual_price) ==
    LotFloor(acct.init_capital, max_position_count, actual_price)

\* max(volume * actual_price * COMMISSION_RATE, 5), the 5 yuan given as flat
\* in the unit of the notional
CommissionOf(notional, flat) ==
    Max((notional \div BP) * COMMISSION_RATE_BP, flat)

Commission(notional) == CommissionOf(notional, MIN_COMMISSION_YUAN * YUAN)

\* the cash check of Account.buy against the capital instead of the cash left
CashShort_capital(acct, total_cost) == total_cost > acct.init_capital

\* "if total_cost > self.available_cash" of Account.buy
CashShort(acct, total_cost) == total_cost > acct.available_cash

buy(acct, trade_date, ts_code, price) ==
    LET actual_price == BuyActualPrice(price)
        max_can_buy == MaxCanBuy(acct, actual_price)
        notional == max_can_buy * actual_price
        commission == Commission(notional)
        total_cost == notional + commission
    IN  IF get_available_position_count(acct) <= 0 THEN [acct |-> acct, ok |-> FALSE]
        ELSE IF AlreadyHeld(acct, ts_code) THEN [acct |-> acct, ok |-> FALSE]
        ELSE IF max_can_buy < MIN_TRADE_VOLUME THEN [acct |-> acct, ok |-> FALSE]
        ELSE IF CashShort(acct, total_cost) THEN [acct |-> acct, ok |-> FALSE]
        ELSE [acct |->
                [acct EXCEPT
                    !.available_cash = @ - total_cost,
                    !.positions = PosPut(@, NewPosition(ts_code, actual_price,
                                            max_can_buy, trade_date, total_cost)),
                    !.trade_history = Append(@,
                        [trade_date |-> trade_date, ts_code |-> ts_code,
                         direction |-> "buy", price |-> Round4(actual_price),
                         volume |-> max_can_buy, commission |-> Round2(commission),
                         stamp_duty |-> 0, total |-> Round2(total_cost),
                         pnl |-> 0])],
              ok |-> TRUE]

\* the refreshed position taken out of the account
Refreshed_dropped(acct, position) ==
    [acct EXCEPT !.positions = PosDel(@, position.ts_code)]

\* position.update_can_sell(trade_date) acts on the object held in
\* self.positions: the account with that position refreshed
Refreshed(acct, position) == [acct EXCEPT !.positions = PosPut(@, position)]

sell(acct, trade_date, ts_code, price) ==
    IF ~Held(acct.positions, ts_code) THEN [acct |-> acct, ok |-> FALSE]
    ELSE
    LET position == update_can_sell(PosOf(acct.positions, ts_code), trade_date)
        checked == Refreshed(acct, position)
        actual_price == SellActualPrice(price)
        volume == position.buy_volume
        notional == volume * actual_price
        commission == Commission(notional)
        stamp_duty == (notional \div BP) * STAMP_DUTY_RATE_BP
        total_income == notional - commission - stamp_duty
        sell_pnl == total_income - position.buy_total_cost
    IN  IF ~position.can_sell THEN [acct |-> checked, ok |-> FALSE]
        ELSE [acct |->
                [checked EXCEPT
                    !.daily_sold_pnl =
                        {e \in @ : ~(e.trade_date = trade_date /\ e.ts_code = ts_code)}
                        \cup {[trade_date |-> trade_date, ts_code |-> ts_code,
                               pnl |-> sell_pnl]},
                    !.available_cash = @ + total_income,
                    !.positions = PosDel(@, ts_code),
                    !.trade_history = Append(@,
                        [trade_date |-> trade_date, ts_code |-> ts_code,
                         direction |-> "sell", price |-> Round4(actual_price),
                         volume |-> volume, commission |-> Round2(commission),
                         stamp_duty |-> Round2(stamp_duty),
                         total |-> Round2(total_income),
                         pnl |-> Round2(sell_pnl)])],
              ok |-> TRUE]

\* a held symbol without a bar valued at nothing instead of its buy price
ClosePrice_nobar_zero(position, daily_price_df) ==
    IF HasRow(daily_price_df, position.ts_code)
    THEN RowOf(daily_price_df, position.ts_code).close * CENT
    ELSE 0

\* close of the day for a held symbol: the frame's close, else the buy price
ClosePrice(position, daily_price_df) ==
    IF HasRow(daily_price_df, position.ts_code)
    THEN RowOf(daily_price_df, position.ts_code).close * CENT
    ELSE position.buy_price

RECURSIVE TotalPositionValue(_, _)
TotalPositionValue(positions, daily_price_df) ==
    IF positions = <<>> THEN 0
    ELSE Head(positions).buy_volume * ClosePrice(Head(positions), daily_price_df)
         + TotalPositionValue(Tail(positions), daily_price_df)

update_daily_asset(acct, trade_date, daily_price_df) ==
    LET positions == [i \in 1..Len(acct.positions) |->
                        update_hold_days(acct.positions[i], trade_date)]
        total_position_value == TotalPositionValue(positions, daily_price_df)
        total_asset == acct.available_cash + total_position_value
        daily_pnl == total_asset - acct.prev_total_asset
        total_pnl == total_asset - acct.init_capital
    IN  [acct EXCEPT
            !.positions = positions,
            !.total_asset = total_asset,
            !.daily_net_value = Append(@,
                [trade_date |-> trade_date,
                 total_asset |-> Round2(total_asset),
                 available_cash |-> Round2(acct.available_cash),
                 position_count |-> Len(positions),
                 total_position_value |-> Round2(total_position_value),
                 daily_pnl |-> Round2(daily_pnl),
                 total_pnl |-> Round2(total_pnl)]),
            !.prev_total_asset = total_asset,
            !.daily_sold_pnl = {e \in @ : e.trade_date # trade_date}]

\* ------------------------------------------------------------------------
\* BacktestMetrics  (backtest/metrics.py)
\*   trade_df is the ledger, net_value_df the list of daily records.  A float
\*   statistic is kept as its class: "nan", "zero", or "number" for a finite
\*   value the formula gives.
\* ------------------------------------------------------------------------
IsBuy(trade) == trade.direction = "buy"
IsSell(trade) == trade.direction = "sell"

\* order of sort_values(["ts_code", "trade_date"])
BuyBefore(a, b) ==
    \/ SymLess(a.ts_code, b.ts_code)
    \/ a.ts_code = b.ts_code /\ DateLess(a.trade_date, b.trade_date)

RECURSIVE InsertBuy(_, _)
InsertBuy(sorted, buy_row) ==
    IF sorted = <<>> THEN <<buy_row>>
    ELSE IF BuyBefore(buy_row, Head(sorted)) THEN <<buy_row>> \o sorted
    ELSE <<Head(sorted)>> \o InsertBuy(Tail(sorted), buy_row)

RECURSIVE SortBuys(_)
SortBuys(buy_trades) ==
    IF buy_trades = <<>> THEN <<>>
    ELSE InsertBuy(SortBuys(SubSeq(buy_trades, 1, Len(buy_trades) - 1)),
                   buy_trades[Len(buy_trades)])

\* the sells of the symbol dated after the buy_row
LaterSells(sell_trades, buy_row) ==
    SelectSeq(sell_trades,
              LAMBDA sell_row : sell_row.ts_code = buy_row.ts_code
                            /\ DateLess(buy_row.trade_date, sell_row.trade_date))

\* ".sort_values("trade_date").head(1)" of a non-empty frame
EarliestSell(later) ==
    later[CHOOSE i \in 1..Len(later) :
              /\ \A j \in 1..Len(later) : ~DateLess(later[j].trade_date, later[i].trade_date)
              /\ \A j \in 1..(i - 1) : later[j].trade_date # later[i].trade_date]

\* the matched sell_row stays among the sells to match
DropSell_keep(sell_trades, sell_row) == sell_trades

\* sell_trades.drop(sell.name)
DropSell(sell_trades, sell_row) == SelectSeq(sell_trades, LAMBDA other : other # sell_row)

CompleteTrade(buy_row, sell_row) ==
    [ts_code |-> buy_row.ts_code, buy_date |-> buy_row.trade_date, sell_date |-> sell_row.trade_date,
     buy_cost |-> buy_row.total, sell_income |-> sell_row.total,
     profit |-> sell_row.total - buy_row.total, is_win |-> sell_row.total - buy_row.total > 0]

RECURSIVE PairBuys(_, _, _)
\* "for _, buy in buy_trades_sorted.iterrows()"
PairBuys(buys, sell_trades, complete_trades) ==
    IF buys = <<>> THEN complete_trades
    ELSE
    LET buy_row == Head(buys)
        later == LaterSells(sell_trades, buy_row)
    IN  IF later = <<>> THEN PairBuys(Tail(buys), sell_trades, complete_trades)
        ELSE PairBuys(Tail(buys), DropSell(sell_trades, EarliestSell(later)),
                      Append(complete_trades, CompleteTrade(buy_row, EarliestSell(later))))

\* the rows of trade_df carry their index label; a ledger without a buy_row has
\* no total_cost column and one without a sell_row no total_income column
_calc_complete_trades(trade_df) ==
    LET rows == [i \in 1..Len(trade_df) |->
                    [index |-> i, ts_code |-> trade_df[i].ts_code,
                     direction |-> trade_df[i].direction,
                     trade_date |-> trade_df[i].trade_date, total |-> trade_df[i].total]]
        buy_trades == SelectSeq(rows, IsBuy)
        sell_trades == SelectSeq(rows, IsSell)
    IN  IF trade_df = <<>> THEN <<>>
        ELSE IF buy_trades = <<>> \/ sell_trades = <<>> THEN <<>>
        ELSE PairBuys(SortBuys(buy_trades), sell_trades, <<>>)

\* Series.std() of daily_return (pct_change().fillna(0)) and of the excess
\* return, which is daily_return minus a constant: undefined for one row,
\* zero when total_asset never changes
ReturnStd(net_value_df) ==
    IF Len(net_value_df) < 2 THEN "nan"
    ELSE IF \A i \in 2..Len(net_value_df) :
               net_value_df[i].total_asset = net_value_df[i - 1].total_asset
         THEN "zero"
    ELSE "number"

calc_all_metrics(net_value_df, trade_df) ==
    LET daily_vol == ReturnStd(net_value_df)
        annual_vol == IF daily_vol # "zero" THEN daily_vol ELSE "zero"
        excess_std == ReturnStd(net_value_df)
        sharpe_ratio == IF excess_std # "zero" THEN excess_std ELSE "zero"
        complete_trades == _calc_complete_trades(trade_df)
        total_trade_times == Len(complete_trades)
        win_count == Cardinality({i \in 1..total_trade_times : complete_trades[i].is_win})
        win_rate == IF total_trade_times > 0
                    THEN RoundDiv(win_count * 100 * 100, total_trade_times) ELSE 0
    IN  [computed |-> TRUE,
         annual_vol |-> annual_vol,
         sharpe_ratio |-> sharpe_ratio,
         win_rate |-> win_rate,
         total_trade_times |-> total_trade_times,
         total_days |-> Len(net_value_df),
         complete_trades |-> complete_trades]

\* ------------------------------------------------------------------------
\* MultiLimitUpStrategy.generate_signal
\*   sell_signal_map: the dict {ts_code: sell_type} as the sequence of its
\*   items [ts_code, sell_type], in insertion order
\* ------------------------------------------------------------------------
SignalPut(map, ts, sell_type) ==
    IF \E i \in 1..Len(map) : map[i].ts_code = ts
    THEN [i \in 1..Len(map) |->
            IF map[i].ts_code = ts THEN [ts_code |-> ts, sell_type |-> sell_type]
            ELSE map[i]]
    ELSE Append(map, [ts_code |-> ts, sell_type |-> sell_type])

RECURSIVE SellSignals_hold_days(_, _, _, _)
\* the loop with the tests on hold_days: "open" for hold_days = 0, "close"
\* for hold_days > 0
SellSignals_hold_days(positions, trade_date, daily_df, map) ==
    IF positions = <<>> THEN map
    ELSE
    LET pos == Head(positions)
        rest == Tail(positions)
    IN  IF ~HasRow(daily_df, pos.ts_code)
        THEN SellSignals_hold_days(rest, trade_date, daily_df, map)
        ELSE
        LET row == RowOf(daily_df, pos.ts_code)
            limit_price == calc_limit_up_price(pos.ts_code, row.pre_close)
            is_limit == AtLimit(row.close, limit_price)
        IN  IF pos.hold_days = 0 /\ ~is_limit
            THEN SellSignals_hold_days(rest, trade_date, daily_df,
                                       SignalPut(map, pos.ts_code, SELL_TYPE_AFTER_BLOWUP))
            ELSE IF pos.hold_days > 0 /\ ~is_limit
            THEN SellSignals_hold_days(rest, trade_date, daily_df,
                                       SignalPut(map, pos.ts_code, "close"))
            ELSE SellSignals_hold_days(rest, trade_date, daily_df, map)

RECURSIVE SellSignals(_, _, _, _)
\* the loop "for ts_code, pos in positions.items()"
SellSignals(positions, trade_date, daily_df, map) ==
    IF positions = <<>> THEN map
    ELSE
    LET pos == Head(positions)
        rest == Tail(positions)
    IN  IF ~HasRow(daily_df, pos.ts_code)
        THEN SellSignals(rest, trade_date, daily_df, map)
        ELSE
        LET row == RowOf(daily_df, pos.ts_code)
            limit_price == calc_limit_up_price(pos.ts_code, row.pre_close)
            is_limit == AtLimit(row.close, limit_price)
            today == _unify_date_format(trade_date)
        IN  IF pos.buy_date = today /\ ~is_limit
            THEN SellSignals(rest, trade_date, daily_df,
                             SignalPut(map, pos.ts_code, SELL_TYPE_AFTER_BLOWUP))
            ELSE IF DateLeq(pos.buy_date, today) /\ ~is_limit
            THEN SellSignals(rest, trade_date, daily_df,
                             SignalPut(map, pos.ts_code, "close"))
            ELSE SellSignals(rest, trade_date, daily_df, map)

generate_signal(trade_date, daily_df, positions, cache, src, completion) ==
    LET available_pos == Max(0, max_position_count - Len(positions))
        sel == select_buy_stocks(trade_date, daily_df, available_pos, cache, src,
                                 completion)
    IN  [buy_stocks |-> sel.buy_stocks,
         sell_signal_map |-> SellSignals(positions, trade_date, daily_df, <<>>),
         hits |-> sel.hits,
         cache |-> sel.cache]

\* the calendar days of the intraday bars generate_signal asks the gateway
\* for: the day of trade_date when a candidate is not in the cache
MinBarsRead(trade_date, daily_df, positions, cache) ==
    LET available_pos == Max(0, max_position_count - Len(positions))
        candidates == SelectSeq(daily_df, IsCandidate)
    IN  IF /\ available_pos > 0
           /\ \E i \in 1..Len(candidates) :
                 ~CacheHas(cache, candidates[i].ts_code, trade_date)
        THEN {MinBarsDay(trade_date)}
        ELSE {}

\* ------------------------------------------------------------------------
\* MultiStockBacktestEngine.run: the loops of one day
\* ------------------------------------------------------------------------
RECURSIVE ExecSells(_, _, _, _, _)
\* "for ts_code, sell_type in items: if sell_type == kind: ... account.sell"
\* at the row's open (kind "open") or close (kind "close")
ExecSells(acct, trade_date, items, daily_df, kind) ==
    IF items = <<>> THEN acct
    ELSE
    LET it == Head(items)
    IN  IF it.sell_type = kind /\ HasRow(daily_df, it.ts_code)
        THEN LET row == RowOf(daily_df, it.ts_code)
                 price == IF kind = "open" THEN row.open ELSE row.close
             IN  ExecSells(sell(acct, trade_date, it.ts_code, price).acct,
                           trade_date, Tail(items), daily_df, kind)
        ELSE ExecSells(acct, trade_date, Tail(items), daily_df, kind)

RECURSIVE ExecBuys(_, _, _, _)
\* "for ts_code in buy_stocks[:available_count]"
ExecBuys(acct, trade_date, stocks, daily_df) ==
    IF stocks = <<>> THEN acct
    ELSE
    LET ts_code == Head(stocks)
        rest == Tail(stocks)
    IN  IF ~HasRow(daily_df, ts_code) THEN ExecBuys(acct, trade_date, rest, daily_df)
        ELSE
        LET pre_close == RowOf(daily_df, ts_code).pre_close
            limit_up_price == calc_limit_up_price(ts_code, pre_close)
        IN  IF pre_close <= 0 THEN ExecBuys(acct, trade_date, rest, daily_df)
            ELSE IF limit_up_price <= 0 THEN ExecBuys(acct, trade_date, rest, daily_df)
            ELSE ExecBuys(buy(acct, trade_date, ts_code, limit_up_price).acct,
                          trade_date, rest, daily_df)

RECURSIVE ForceLiquidate(_, _, _, _)
\* "for ts_code in hold_stocks" after the day loop
ForceLiquidate(acct, last_date, hold_stocks, last_daily_df) ==
    IF hold_stocks = <<>> THEN acct
    ELSE
    LET ts_code == Head(hold_stocks)
        rest == Tail(hold_stocks)
    IN  IF ~Held(acct.positions, ts_code)
        THEN ForceLiquidate(acct, last_date, rest, last_daily_df)
        ELSE IF ~HasRow(last_daily_df, ts_code)
        THEN ForceLiquidate(acct, last_date, rest, last_daily_df)
        ELSE ForceLiquidate(
                sell(acct, last_date, ts_code, RowOf(last_daily_df, ts_code).close).acct,
                last_date, rest, last_daily_df)

\* the day loop with the "close" sells placed before the buys
NextStep_sells_first(p) ==
    CASE p = "open_sells" -> "signal"
      [] p = "signal" -> "close_sells"
      [] p = "close_sells" -> "buys"
      [] p = "buys" -> "mark"
      [] OTHER -> "load"

\* the statement order of one pass of the day loop, and what follows it
NextStep(p) ==
    CASE p = "open_sells" -> "signal"
      [] p = "signal" -> "buys"
      [] p = "buys" -> "close_sells"
      [] p = "close_sells" -> "mark"
      [] OTHER -> "load"

\* ------------------------------------------------------------------------
\* Market data the gateway can return for one (symbol, day) in a run:
\* a daily bar with previous close PreClose and its one-minute trace
\*   absent  no daily row
\*   seal    touches at bar 2, closes at the limit
\*   blowup  touches at bar 1, closes below the limit
\*   gap     opens at the limit, dips at bar 2, reseals at bar 3
\*   crash   never near the limit, closes at one cent
\*   raise   the daily row of seal, and fetching the trace raises
\* ------------------------------------------------------------------------
PreClose == 20
DayKinds == {"absent", "seal", "blowup", "gap", "crash"}
\* the kinds a symbol takes in a run: one symbol gap-locks, all take the rest
KindsOf(ts) == IF ts = S_MAIN_A THEN DayKinds ELSE DayKinds \ {"gap"}
DayChoices == {k \in [Symbols -> DayKinds] : \A ts \in Symbols : k[ts] \in KindsOf(ts)}

Bar(ts, o, h, l, c) ==
    [ts_code |-> ts, open |-> o, high |-> h, low |-> l, close |-> c,
     pre_close |-> PreClose]
Tick(t, h, l, c) == [trade_time |-> t, high |-> h, low |-> l, close |-> c]

KindRow(ts, kind) ==
    LET L == calc_limit_up_price(ts, PreClose)
    IN  CASE kind = "seal" -> Bar(ts, 21, L, 20, L)
          [] kind = "blowup" -> Bar(ts, 21, L, 20, 21)
          [] kind = "gap" -> Bar(ts, L, L, L - 1, L)
          [] kind = "raise" -> Bar(ts, 21, L, 20, L)
          [] OTHER -> Bar(ts, 20, 20, 1, 1)

KindSeries(ts, kind) ==
    LET L == calc_limit_up_price(ts, PreClose)
    IN  CASE kind = "seal" -> <<Tick(1, 21, 20, 21), Tick(2, L, 21, L)>>
          [] kind = "blowup" -> <<Tick(1, L, 21, 21), Tick(2, 21, 20, 21)>>
          [] kind = "gap" -> <<Tick(1, L, L, L), Tick(2, L, L - 1, L - 1),
                               Tick(3, L, L - 1, L)>>
          [] kind = "raise" -> FetchError
          [] OTHER -> <<>>

\* the symbols of S in ascending code order
Ordered(S) ==
    CHOOSE f \in Perms(S) :
        \A i, j \in 1..Cardinality(S) : i < j => SymLess(f[i], f[j])

\* the kline_day rows of a day whose symbols have the kinds k, as the table
\* returns them
DayFrame(k) ==
    LET order == Ordered({ts \in Symbols : k[ts] # "absent"})
    IN  [i \in 1..Len(order) |-> KindRow(order[i], k[order[i]])]

DaySource(k) == [ts \in Symbols |-> KindSeries(ts, k[ts])]

\* ------------------------------------------------------------------------
\* State
\* ------------------------------------------------------------------------
VARIABLES
    account,            \* the Account object
    fill_phase,         \* for each ledger entry, the step of run() that made it
    sell_signal_map,    \* strategy.sell_signal_map
    buy_stocks,         \* buy list returned by the last signal query
    hits,               \* hits dict of the last select_buy_stocks call
    pc,                 \* position in run() / which component is driven
    idx,                \* index of the trading day in trade_dates
    daily_df,           \* daily frame of the day in hand
    min_src,            \* intraday frames the gateway holds for that day
    min_data_cache,     \* strategy.min_data_cache
    available_pos,      \* available_pos handed to select_buy_stocks
    last_call,          \* the last Account call and its result
    ncalls,             \* Account calls made so far
    bar_reads,          \* [day, date]: on day number day of the calendar, bars of
                        \* the calendar day date were queried
    limit_in,           \* arguments of the calc_limit_up_price calls
    limit_out,          \* what the calls returned, in call order
    raw_cal,            \* the trading calendar the vendor returns: rows
                        \* [cal_date, is_open]
    gateway_calls,      \* CacheSpec: for each key <<ts_code, trade_date>>, the calls
                        \* of data_cleaner.get_kline_min_by_stock_date since the
                        \* strategy was initialized
    result,             \* what BacktestMetrics.calc_all_metrics returned
    retry               \* a call of a function wrapped by retry_decorator

vars == <<account, fill_phase, sell_signal_map, buy_stocks, hits, pc, idx,
          daily_df, min_src, min_data_cache, available_pos, last_call, ncalls,
          bar_reads, limit_in, limit_out, raw_cal, gateway_calls,
          result, retry>>

\* variables outside the day loop, the Account and the strategy
Extras == <<raw_cal, gateway_calls, result, retry>>

NoRetry == [pc |-> "none"]

NoResult == [computed |-> FALSE]

CacheKeys == {<<ts, d>> : ts \in Symbols, d \in Range(trade_dates)}
NoGatewayCalls == [key \in CacheKeys |-> 0]

NoLimitCall == [impl |-> "none", ts_code |-> S_MAIN_A, pre_close |-> 0]
NoCall == [op |-> "none", ts_code |-> S_MAIN_A, trade_date |-> Date(0, FALSE),
           price |-> 0, frame |-> <<>>, ok |-> FALSE]
NoSource == [ts \in Symbols |-> <<>>]

\* ledger entries added by a step carry that step's name
Phases(old, new, phase) ==
    fill_phase \o [i \in 1..(Len(new.trade_history) - Len(old.trade_history)) |-> phase]

\* ------------------------------------------------------------------------
\* MultiStockBacktestEngine.run
\* ------------------------------------------------------------------------
Init ==
    /\ account = NewAccount
    /\ fill_phase = <<>>
    /\ sell_signal_map = <<>>
    /\ buy_stocks = <<>>
    /\ hits = <<>>
    /\ pc = "new"
    /\ idx = 1
    /\ daily_df = <<>>
    /\ min_src = NoSource
    /\ min_data_cache = {}
    /\ available_pos = 0
    /\ last_call = NoCall
    /\ ncalls = 0
    /\ bar_reads = {}
    /\ limit_in = NoLimitCall
    /\ limit_out = <<>>
    /\ raw_cal \in RawCals
    /\ gateway_calls = NoGatewayCalls
    /\ result = NoResult
    /\ retry = NoRetry

\* MultiStockBacktestEngine.__init__: the Account is made, then init_trade_cal
\* raises or gives the list of trading days
Construct ==
    /\ pc = "new"
    /\ pc' = IF init_trade_cal(raw_cal).raised THEN "init_raised" ELSE "start"
    /\ account' = NewAccount
    /\ UNCHANGED <<fill_phase, sell_signal_map, buy_stocks, hits, idx, daily_df, min_src,
                   min_data_cache, available_pos, last_call, ncalls,
                   bar_reads, limit_in, limit_out, Extras>>

\* run(): strategy.initialize()
RunStart ==
    /\ pc = "start"
    /\ sell_signal_map' = <<>>
    /\ min_data_cache' = {}
    /\ pc' = "load"
    /\ UNCHANGED <<account, fill_phase, buy_stocks, hits, idx, daily_df, min_src,
                   available_pos, last_call, ncalls,
                   bar_reads, limit_in, limit_out, Extras>>

\* a query for the rows of the calendar day after trade_date
DailyBarsDay_next(trade_date) == trade_date.ymd + 1

\* the calendar day of the rows that get_daily_kline_data(trade_date) selects:
\* "WHERE trade_date = %s" with trade_date.replace("-", "")
DailyBarsDay(trade_date) == trade_date.ymd

AfterDay(i) == IF i < NumDays THEN "load" ELSE "liquidate"

\* a skipped day closed with update_daily_asset on the empty frame
SkippedDay_marked(acct, trade_date) == update_daily_asset(acct, trade_date, <<>>)

\* "if daily_df.empty: continue": the account after a skipped day
SkippedDay(acct, trade_date) == acct

\* get_daily_kline_data(trade_date); an empty frame skips the day
LoadDay ==
    /\ pc = "load"
    /\ \E k \in DayChoices :
         /\ daily_df' = DayFrame(k)
         /\ min_src' = DaySource(k)
    /\ IF daily_df' = <<>>
       THEN /\ account' = SkippedDay(account, trade_dates[idx])
            /\ idx' = idx + 1
            /\ pc' = AfterDay(idx)
       ELSE /\ account' = account
            /\ idx' = idx
            /\ pc' = "open_sells"
    /\ bar_reads' = bar_reads \cup {[day |-> idx, date |-> DailyBarsDay(trade_dates[idx])]}
    /\ UNCHANGED <<min_data_cache, fill_phase, sell_signal_map, buy_stocks, hits,
                   available_pos, last_call, ncalls, limit_in, limit_out, Extras>>

\* step 3: the carried-over "open" sells, then the map is emptied
OpenSells ==
    /\ pc = "open_sells"
    /\ account' = ExecSells(account, trade_dates[idx], sell_signal_map, daily_df, "open")
    /\ fill_phase' = Phases(account, account', "open_sells")
    /\ sell_signal_map' = <<>>
    /\ pc' = NextStep(pc)
    /\ UNCHANGED <<min_data_cache, buy_stocks, hits, idx, daily_df, min_src, available_pos,
                   last_call, ncalls,
                   bar_reads, limit_in, limit_out, Extras>>

\* step 4: strategy.generate_signal
Signal ==
    /\ pc = "signal"
    /\ \E completion \in Completions :
         LET sig == generate_signal(trade_dates[idx], daily_df, account.positions,
                                    min_data_cache, min_src, completion)
         IN  /\ buy_stocks' = sig.buy_stocks
             /\ sell_signal_map' = sig.sell_signal_map
             /\ min_data_cache' = sig.cache
    /\ bar_reads' = bar_reads \cup
                      {[day |-> idx, date |-> d] :
                          d \in MinBarsRead(trade_dates[idx], daily_df, account.positions,
                                            min_data_cache)}
    /\ pc' = NextStep(pc)
    /\ UNCHANGED <<account, fill_phase, hits, idx, daily_df, min_src, available_pos,
                   last_call, ncalls, limit_in, limit_out, Extras>>

\* step 5: buys by available slot
Buys ==
    /\ pc = "buys"
    /\ LET available_count == get_available_position_count(account)
       IN  account' = IF available_count > 0 /\ buy_stocks # <<>>
                      THEN ExecBuys(account, trade_dates[idx],
                                    Take(buy_stocks, available_count), daily_df)
                      ELSE account
    /\ fill_phase' = Phases(account, account', "buys")
    /\ pc' = NextStep(pc)
    /\ UNCHANGED <<min_data_cache, sell_signal_map, buy_stocks, hits, idx, daily_df, min_src,
                   available_pos, last_call, ncalls,
                   bar_reads, limit_in, limit_out, Extras>>

\* step 6: the day's "close" sells
CloseSells ==
    /\ pc = "close_sells"
    /\ account' = ExecSells(account, trade_dates[idx], sell_signal_map, daily_df, "close")
    /\ fill_phase' = Phases(account, account', "close_sells")
    /\ pc' = NextStep(pc)
    /\ UNCHANGED <<min_data_cache, sell_signal_map, buy_stocks, hits, idx, daily_df, min_src,
                   available_pos, last_call, ncalls,
                   bar_reads, limit_in, limit_out, Extras>>

\* step 7: account.update_daily_asset, then the next day
MarkToMarket ==
    /\ pc = "mark"
    /\ account' = update_daily_asset(account, trade_dates[idx], daily_df)
    /\ idx' = idx + 1
    /\ pc' = AfterDay(idx)
    /\ IF idx < NumDays
       THEN daily_df' = <<>> /\ min_src' = NoSource /\ buy_stocks' = <<>>
       ELSE UNCHANGED <<daily_df, min_src, buy_stocks>>
    /\ UNCHANGED <<min_data_cache, fill_phase, sell_signal_map, hits, available_pos, last_call, ncalls,
                   bar_reads, limit_in, limit_out, Extras>>

\* after the loop: last_daily_df is read again and the held symbols are sold;
\* an empty last_daily_df has no ts_code column, so indexing it raises
Liquidate ==
    /\ pc = "liquidate"
    /\ LET last_date == trade_dates[NumDays]
           hold_stocks == [i \in 1..Len(account.positions) |->
                              account.positions[i].ts_code]
       IN  IF hold_stocks # <<>> /\ daily_df = <<>>
           THEN /\ pc' = "raised"
                /\ UNCHANGED <<account, fill_phase>>
           ELSE /\ account' = ForceLiquidate(account, last_date, hold_stocks, daily_df)
                /\ fill_phase' = Phases(account, account', "liquidate")
                /\ pc' = "final_mark"
    /\ bar_reads' = bar_reads \cup {[day |-> NumDays, date |-> DailyBarsDay(trade_dates[NumDays])]}
    /\ UNCHANGED <<min_data_cache, sell_signal_map, buy_stocks, hits, idx, daily_df, min_src,
                   available_pos, last_call, ncalls, limit_in, limit_out, Extras>>

\* account.update_daily_asset(last_date, last_daily_df), then the metrics
FinalMark ==
    /\ pc = "final_mark"
    /\ IF account.positions # <<>> /\ daily_df = <<>>
       THEN pc' = "raised" /\ UNCHANGED <<account, result>>
       ELSE /\ account' = update_daily_asset(account, trade_dates[NumDays], daily_df)
            /\ result' = calc_all_metrics(account'.daily_net_value, account'.trade_history)
            /\ pc' = "done"
    /\ UNCHANGED <<min_data_cache, fill_phase, sell_signal_map, buy_stocks, hits, idx, daily_df,
                   min_src, available_pos, last_call, ncalls,
                   bar_reads, limit_in, limit_out, raw_cal, gateway_calls, retry>>

Next ==
    \/ Construct
    \/ RunStart
    \/ LoadDay
    \/ OpenSells
    \/ Signal
    \/ Buys
    \/ CloseSells
    \/ MarkToMarket
    \/ Liquidate
    \/ FinalMark

Spec == Init /\ [][Next]_vars

\* ------------------------------------------------------------------------
\* The Account driven call by call: any sequence of buy, sell and
\* update_daily_asset, with the date of the calls never going back
\* ------------------------------------------------------------------------
ApiBuyPrices == {26, 49, 55}
ApiSellPrices == {1, 22}
ApiFrames ==
    {<<Bar(S_MAIN_A, 20, 20, 20, 20)>>,
     <<Bar(S_MAIN_A, 22, 22, 22, 22), Bar(S_STAR, 22, 22, 22, 22),
       Bar(S_MAIN_B, 22, 22, 22, 22)>>}

AccountInit ==
    /\ account = NewAccount
    /\ fill_phase = <<>>
    /\ sell_signal_map = <<>>
    /\ buy_stocks = <<>>
    /\ hits = <<>>
    /\ pc = "api"
    /\ idx = 1
    /\ daily_df = <<>>
    /\ min_src = NoSource
    /\ min_data_cache = {}
    /\ available_pos = 0
    /\ last_call = NoCall
    /\ ncalls = 0
    /\ bar_reads = {}
    /\ limit_in = NoLimitCall
    /\ limit_out = <<>>
    /\ raw_cal = OpenCal
    /\ gateway_calls = NoGatewayCalls
    /\ result = NoResult
    /\ retry = NoRetry

ApiFrame == <<sell_signal_map, buy_stocks, hits, pc, daily_df, min_src,
              min_data_cache, available_pos, bar_reads, limit_in, limit_out, Extras>>

AcctBuy ==
    /\ pc = "api"
    /\ ncalls < MaxCalls
    /\ \E ts \in Symbols, price \in ApiBuyPrices, dashed \in BOOLEAN :
         LET r == buy(account, Date(idx, dashed), ts, price)
         IN  /\ account' = r.acct
             /\ last_call' = [op |-> "buy", ts_code |-> ts,
                              trade_date |-> Date(idx, dashed), price |-> price,
                              frame |-> <<>>, ok |-> r.ok]
    /\ fill_phase' = Phases(account, account', "api")
    /\ ncalls' = ncalls + 1
    /\ UNCHANGED <<idx, ApiFrame>>

AcctSell ==
    /\ pc = "api"
    /\ ncalls < MaxCalls
    /\ \E ts \in Symbols, price \in ApiSellPrices, dashed \in BOOLEAN :
         LET r == sell(account, Date(idx, dashed), ts, price)
         IN  /\ account' = r.acct
             /\ last_call' = [op |-> "sell", ts_code |-> ts,
                              trade_date |-> Date(idx, dashed), price |-> price,
                              frame |-> <<>>, ok |-> r.ok]
    /\ fill_phase' = Phases(account, account', "api")
    /\ ncalls' = ncalls + 1
    /\ UNCHANGED <<idx, ApiFrame>>

AcctUpdateDailyAsset ==
    /\ pc = "api"
    /\ ncalls < MaxCalls
    /\ \E df \in ApiFrames :
         /\ account' = update_daily_asset(account, trade_dates[idx], df)
         /\ last_call' = [op |-> "update_daily_asset", ts_code |-> S_MAIN_A,
                          trade_date |-> trade_dates[idx], price |-> 0,
                          frame |-> df, ok |-> TRUE]
    /\ ncalls' = ncalls + 1
    /\ UNCHANGED <<fill_phase, idx, ApiFrame>>

\* the simulated date moves on to the next trading day
AcctNextDay ==
    /\ pc = "api"
    /\ idx < NumDays
    /\ idx' = idx + 1
    /\ last_call' = NoCall
    /\ UNCHANGED <<account, fill_phase, ncalls, ApiFrame>>

AccountNext ==
    \/ AcctBuy
    \/ AcctSell
    \/ AcctUpdateDailyAsset
    \/ AcctNextDay

AccountSpec == AccountInit /\ [][AccountNext]_vars

\* ------------------------------------------------------------------------
\* select_buy_stocks on freely drawn bars: one symbol with any daily row of
\* FreeRows and any trace of up to MaxBars bars, the others with the day
\* kinds of a run, in any row order, for any number of free slots
\* ------------------------------------------------------------------------
FreeSymbol == S_MAIN_A
SelKinds == {"absent", "seal", "blowup"}
\* the fetch of one of the symbols may raise
SelKindsOf(ts) == IF ts = S_STAR THEN SelKinds \cup {"raise"} ELSE SelKinds

\* fetches finishing in the order of the symbols, or in the opposite order
SelCompletions ==
    {Ordered(Symbols),
     [i \in 1..Cardinality(Symbols) |-> Ordered(Symbols)[Cardinality(Symbols) + 1 - i]]}

BarPc(ts, o, h, l, c, p) ==
    [ts_code |-> ts, open |-> o, high |-> h, low |-> l, close |-> c, pre_close |-> p]

FreeRows(ts) ==
    LET L == calc_limit_up_price(ts, PreClose)
    IN  {Bar(ts, L, L, L - 2, L),        \* opens at the limit
         Bar(ts, 21, L, 20, L),          \* touches the limit in the session
         Bar(ts, 20, 21, 19, 20),        \* never near the limit
         Bar(ts, L, L - 1, L - 2, L),    \* open at the limit above the daily high
         BarPc(ts, L, L, 20, L, 0)}      \* no previous close

\* bars by kind: locked, dip (high below), reseal within the bar, spike
TickShapes(L) ==
    {<<L, L, L>>, <<L - 1, L - 2, L - 2>>, <<L, L - 1, L>>, <<L, L - 2, L - 2>>}

\* traces of n bars, rows in ascending or descending time order
FreeSeries(L) ==
    UNION {{[i \in 1..n |-> Tick(IF rev THEN n + 1 - i ELSE i,
                                 sh[i][1], sh[i][2], sh[i][3])] :
               sh \in [1..n -> TickShapes(L)], rev \in BOOLEAN} : n \in 0..MaxBars}

SelInit ==
    /\ account = NewAccount
    /\ fill_phase = <<>>
    /\ sell_signal_map = <<>>
    /\ buy_stocks = <<>>
    /\ hits = <<>>
    /\ pc = "select"
    /\ idx = 1
    /\ min_data_cache = {}
    /\ last_call = NoCall
    /\ ncalls = 0
    /\ bar_reads = {}
    /\ limit_in = NoLimitCall
    /\ limit_out = <<>>
    /\ raw_cal = OpenCal
    /\ gateway_calls = NoGatewayCalls
    /\ result = NoResult
    /\ retry = NoRetry
    /\ available_pos \in 0..max_position_count
    /\ \E k \in {c \in [Symbols \ {FreeSymbol} -> SelKinds \cup {"raise"}] :
                    \A ts \in Symbols \ {FreeSymbol} : c[ts] \in SelKindsOf(ts)},
          free \in {<<>>} \cup {<<r>> : r \in FreeRows(FreeSymbol)},
          series \in FreeSeries(calc_limit_up_price(FreeSymbol, PreClose)) :
         LET others == {ts \in Symbols \ {FreeSymbol} : k[ts] # "absent"}
             row(ts) == IF ts = FreeSymbol THEN free[1] ELSE KindRow(ts, k[ts])
             present == others \cup (IF free = <<>> THEN {} ELSE {FreeSymbol})
         IN  /\ \E order \in Perms(present) :
                   daily_df = [i \in 1..Len(order) |-> row(order[i])]
             /\ min_src = [ts \in Symbols |->
                             IF ts = FreeSymbol THEN series ELSE KindSeries(ts, k[ts])]

SelectBuyStocks ==
    /\ pc = "select"
    /\ \E completion \in SelCompletions :
         LET sel == select_buy_stocks(trade_dates[idx], daily_df, available_pos,
                                      min_data_cache, min_src, completion)
         IN  /\ buy_stocks' = sel.buy_stocks
             /\ hits' = sel.hits
             /\ min_data_cache' = sel.cache
    /\ pc' = "selected"
    /\ UNCHANGED <<account, fill_phase, sell_signal_map, idx, daily_df, min_src,
                   available_pos, last_call, ncalls,
                   bar_reads, limit_in, limit_out, Extras>>

SelNext == SelectBuyStocks

SelSpec == SelInit /\ [][SelNext]_vars

\* ------------------------------------------------------------------------
\* calc_limit_up_price called again and again on drawn arguments, the
\* strategy's own (impl "strategy") or the one of BaseStrategy (impl "base"),
\* with the strategy holding signals and cached frames, then reset
\* ------------------------------------------------------------------------
LimitSymbols == Symbols \cup {S_BSE, S_KCB}
LimitPreCloses == (-2..PreClose) \cup {235}
HeldSignals == <<[ts_code |-> S_MAIN_A, sell_type |-> "close"]>>
HeldCache ==
    {[ts_code |-> S_MAIN_A, trade_date |-> trade_dates[1],
      df |-> <<Tick(1, PreClose, PreClose, PreClose)>>]}

LimitInit ==
    /\ account = NewAccount
    /\ fill_phase = <<>>
    /\ sell_signal_map = HeldSignals
    /\ buy_stocks = <<>>
    /\ hits = <<>>
    /\ pc = "limit"
    /\ idx = 1
    /\ daily_df = <<>>
    /\ min_src = NoSource
    /\ min_data_cache \in {{}, HeldCache}
    /\ available_pos = 0
    /\ last_call = NoCall
    /\ ncalls = 0
    /\ bar_reads = {}
    /\ limit_in \in [impl : {"strategy", "base"}, ts_code : LimitSymbols,
                     pre_close : LimitPreCloses]
    /\ limit_out = <<>>
    /\ raw_cal = OpenCal
    /\ gateway_calls = NoGatewayCalls
    /\ result = NoResult
    /\ retry = NoRetry

LimitFrame == <<account, fill_phase, buy_stocks, hits, pc, idx, daily_df, min_src,
                available_pos, last_call, ncalls, bar_reads, limit_in, Extras>>

CalcLimitUpPrice ==
    /\ pc = "limit"
    /\ Len(limit_out) < MaxCalls
    /\ limit_out' = Append(limit_out,
                           IF limit_in.impl = "strategy"
                           THEN calc_limit_up_price(limit_in.ts_code, limit_in.pre_close)
                           ELSE base_calc_limit_up_price(limit_in.ts_code,
                                                         limit_in.pre_close))
    /\ UNCHANGED <<LimitFrame, sell_signal_map, min_data_cache>>

\* strategy.initialize()
Initialize ==
    /\ pc = "limit"
    /\ sell_signal_map # <<>> \/ min_data_cache # {}
    /\ sell_signal_map' = <<>>
    /\ min_data_cache' = {}
    /\ UNCHANGED <<LimitFrame, limit_out>>

LimitNext == CalcLimitUpPrice \/ Initialize

LimitSpec == LimitInit /\ [][LimitNext]_vars

\* ------------------------------------------------------------------------
\* The intraday cache of the strategy: _batch_get_min_df called again and
\* again for lists of symbols over the days of the calendar, and
\* initialize(); the gateway holds a trace, nothing, or raises
\* ------------------------------------------------------------------------
\* the symbols a batch call fetches from the gateway: its cache misses
GatewayCalls(ts_codes, trade_date, cache) ==
    {ts \in Range(ts_codes) : ~CacheHas(cache, ts, trade_date)}

CacheRequests == {<<S_MAIN_A>>, <<S_STAR, S_MAIN_A>>}
CacheSources ==
    {[ts \in Symbols |-> IF ts = S_MAIN_A THEN a ELSE IF ts = S_STAR THEN b ELSE <<>>] :
        a \in {KindSeries(S_MAIN_A, "seal"), <<>>, FetchError},
        b \in {KindSeries(S_STAR, "seal"), <<>>}}

CacheInit ==
    /\ account = NewAccount
    /\ fill_phase = <<>>
    /\ sell_signal_map = <<>>
    /\ buy_stocks = <<>>
    /\ hits = <<>>
    /\ pc = "cache"
    /\ idx = 1
    /\ daily_df = <<>>
    /\ min_src \in CacheSources
    /\ min_data_cache = {}
    /\ available_pos = 0
    /\ last_call = NoCall
    /\ ncalls = 0
    /\ bar_reads = {}
    /\ limit_in = NoLimitCall
    /\ limit_out = <<>>
    /\ raw_cal = OpenCal
    /\ gateway_calls = NoGatewayCalls
    /\ result = NoResult
    /\ retry = NoRetry

CacheFrame == <<account, fill_phase, sell_signal_map, buy_stocks, hits, pc, daily_df,
                min_src, available_pos, bar_reads, limit_in, limit_out, raw_cal, result,
                retry>>

\* one call of _batch_get_min_df(ts_codes, trade_date); last_call keeps the
\* dict it returned
BatchGetMinDf ==
    /\ pc = "cache"
    /\ ncalls < MaxCalls
    /\ \E ts_codes \in CacheRequests, completion \in SelCompletions :
         LET trade_date == trade_dates[idx]
             got == _batch_get_min_df(ts_codes, trade_date, min_data_cache, min_src,
                                      completion)
             fetched == GatewayCalls(ts_codes, trade_date, min_data_cache)
         IN  /\ min_data_cache' = got.cache
             /\ gateway_calls' =
                    [key \in CacheKeys |->
                        IF key[2] = trade_date /\ key[1] \in fetched
                        THEN gateway_calls[key] + 1 ELSE gateway_calls[key]]
             /\ last_call' = [op |-> "_batch_get_min_df", ts_code |-> ts_codes[1],
                              trade_date |-> trade_date, price |-> 0,
                              frame |-> got.dict, ok |-> TRUE]
    /\ ncalls' = ncalls + 1
    /\ UNCHANGED <<CacheFrame, idx>>

\* strategy.initialize(): a new run starts with the cache cleared
CacheInitialize ==
    /\ pc = "cache"
    /\ ncalls > 0
    /\ min_data_cache' = {}
    /\ gateway_calls' = NoGatewayCalls
    /\ last_call' = [NoCall EXCEPT !.op = "initialize"]
    /\ ncalls' = 0
    /\ idx' = 1
    /\ UNCHANGED CacheFrame

CacheNextDay ==
    /\ pc = "cache"
    /\ idx < NumDays
    /\ idx' = idx + 1
    /\ last_call' = NoCall
    /\ UNCHANGED <<CacheFrame, min_data_cache, gateway_calls, ncalls>>

CacheNext == BatchGetMinDf \/ CacheInitialize \/ CacheNextDay

CacheSpec == CacheInit /\ [][CacheNext]_vars


\* ------------------------------------------------------------------------
\* BacktestMetrics on its own: calc_all_metrics on any ledger of up to
\* MaxTrades trades of two symbols over three days, in any order, no two
\* trades of a symbol of the same direction on one day, and on a list of
\* one or two daily records
\* ------------------------------------------------------------------------
LedgerDays == {1, 2, 3}
LedgerSymbols == {S_MAIN_A, S_STAR}
\* a buy costs 100.00; a sell brings 105.00, 90.00 or 110.00 by its day
LedgerTrade(d, ts, direction) ==
    [trade_date |-> Date(d, TRUE), ts_code |-> ts, direction |-> direction,
     price |-> 0, volume |-> MIN_TRADE_VOLUME, commission |-> 0, stamp_duty |-> 0,
     total |-> IF direction = "buy" THEN 10000
               ELSE IF d = 1 THEN 10500 ELSE IF d = 2 THEN 9000 ELSE 11000,
     pnl |-> 0]
LedgerTrades ==
    {LedgerTrade(d, ts, direction) :
        d \in LedgerDays, ts \in LedgerSymbols, direction \in {"buy", "sell"}}
Ledgers ==
    UNION {{l \in [1..n -> LedgerTrades] : \A i, j \in 1..n : i # j => l[i] # l[j]} :
              n \in 0..MaxTrades}

NetRow(d, asset) ==
    [trade_date |-> Date(d, TRUE), total_asset |-> asset, available_cash |-> asset,
     position_count |-> 0, total_position_value |-> 0, daily_pnl |-> 0, total_pnl |-> 0]
NetSeries ==
    {<<NetRow(1, 10000)>>,
     <<NetRow(1, 10000), NetRow(2, 10000)>>,
     <<NetRow(1, 10000), NetRow(2, 11000)>>}

MetricsInit ==
    /\ \E ledger \in Ledgers, series \in NetSeries :
          account = [NewAccount EXCEPT !.trade_history = ledger,
                                       !.daily_net_value = series]
    /\ fill_phase = <<>>
    /\ sell_signal_map = <<>>
    /\ buy_stocks = <<>>
    /\ hits = <<>>
    /\ pc = "metrics"
    /\ idx = 1
    /\ daily_df = <<>>
    /\ min_src = NoSource
    /\ min_data_cache = {}
    /\ available_pos = 0
    /\ last_call = NoCall
    /\ ncalls = 0
    /\ bar_reads = {}
    /\ limit_in = NoLimitCall
    /\ limit_out = <<>>
    /\ raw_cal = OpenCal
    /\ gateway_calls = NoGatewayCalls
    /\ result = NoResult
    /\ retry = NoRetry

CalcAllMetrics ==
    /\ pc = "metrics"
    /\ result' = calc_all_metrics(account.daily_net_value, account.trade_history)
    /\ pc' = "metrics_done"
    /\ UNCHANGED <<account, fill_phase, sell_signal_map, buy_stocks, hits, idx, daily_df,
                   min_src, min_data_cache, available_pos, last_call, ncalls, bar_reads,
                   limit_in, limit_out, raw_cal, gateway_calls, retry>>

MetricsNext == CalcAllMetrics

MetricsSpec == MetricsInit /\ [][MetricsNext]_vars

\* ------------------------------------------------------------------------
\* retry_decorator (utils/common_tools.py): one call of the wrapper for any
\* max_retries up to MaxRetries; each call of the wrapped function returns a
\* frame with rows ("data"), an empty frame ("empty"), something that is not
\* a frame ("other"), or raises ("raise")
\*   retry: [pc, max_retries, retry_count, outcomes, returned]
\* ------------------------------------------------------------------------
FuncOutcomes == {"data", "empty", "other", "raise"}

\* the exception of the last attempt leaves the wrapper
ExhaustedReturn_propagate(outcome) == IF outcome = "raise" THEN "raise" ELSE "empty"

\* what the wrapper returns when retry_count has reached max_retries: the
\* empty result, or pd.DataFrame() after an exception
ExhaustedReturn(outcome) == "empty"

RetryInit ==
    /\ account = NewAccount
    /\ fill_phase = <<>>
    /\ sell_signal_map = <<>>
    /\ buy_stocks = <<>>
    /\ hits = <<>>
    /\ pc = "retry"
    /\ idx = 1
    /\ daily_df = <<>>
    /\ min_src = NoSource
    /\ min_data_cache = {}
    /\ available_pos = 0
    /\ last_call = NoCall
    /\ ncalls = 0
    /\ bar_reads = {}
    /\ limit_in = NoLimitCall
    /\ limit_out = <<>>
    /\ raw_cal = OpenCal
    /\ gateway_calls = NoGatewayCalls
    /\ result = NoResult
    /\ \E max_retries \in 0..MaxRetries :
          retry = [pc |-> "loop", max_retries |-> max_retries, retry_count |-> 0,
                   outcomes |-> <<>>, returned |-> "nothing"]

RetryFrame == <<account, fill_phase, sell_signal_map, buy_stocks, hits, pc, idx, daily_df,
                min_src, min_data_cache, available_pos, last_call, ncalls, bar_reads,
                limit_in, limit_out, raw_cal, gateway_calls, result>>

\* one pass of "while retry_count < max_retries": the wrapped function is
\* called; its result is returned, or retry_count goes up and the wrapper
\* returns or sleeps and goes round again
Attempt ==
    /\ pc = "retry"
    /\ retry.pc = "loop"
    /\ retry.retry_count < retry.max_retries
    /\ \E outcome \in FuncOutcomes :
         LET outcomes == Append(retry.outcomes, outcome)
             retry_count == retry.retry_count + 1
         IN  retry' =
               IF outcome \in {"data", "other"}
               THEN [retry EXCEPT !.pc = "returned", !.outcomes = outcomes,
                                  !.returned = outcome]
               ELSE IF retry_count >= retry.max_retries
               THEN [retry EXCEPT !.pc = IF ExhaustedReturn(outcome) = "raise"
                                         THEN "raised" ELSE "returned",
                                  !.retry_count = retry_count,
                                  !.outcomes = outcomes,
                                  !.returned = ExhaustedReturn(outcome)]
               ELSE [retry EXCEPT !.retry_count = retry_count, !.outcomes = outcomes]
    /\ UNCHANGED RetryFrame

\* the loop condition is false: "return pd.DataFrame()" after the loop
LoopExit ==
    /\ pc = "retry"
    /\ retry.pc = "loop"
    /\ ~(retry.retry_count < retry.max_retries)
    /\ retry' = [retry EXCEPT !.pc = "returned", !.returned = "empty"]
    /\ UNCHANGED RetryFrame

RetryNext == Attempt \/ LoopExit

RetrySpec == RetryInit /\ [][RetryNext]_vars

\* the wrapped function returns or raises each time it is called, and the
\* sleep between two attempts ends
RetryLiveSpec == RetrySpec /\ WF_vars(RetryNext)

\* ========================================================================
\* Properties of retry_decorator (RetryLiveSpec)
\* ========================================================================
\* C26: a call of the wrapper ends; the wrapped function is called at most
\* max_retries times; nothing is raised; and when every call of it raised or
\* returned an empty frame, the wrapper returns an empty frame.
C26_RetryBoundedAndSoft ==
    /\ [](pc = "retry" =>
            /\ Len(retry.outcomes) <= retry.max_retries
            /\ retry.pc # "raised"
            /\ (/\ retry.pc = "returned"
                 /\ \A i \in 1..Len(retry.outcomes) :
                       retry.outcomes[i] \in {"raise", "empty"})
                    => retry.returned = "empty")
    /\ (pc = "retry" ~> retry.pc = "returned")

\* every one of two or more attempts failed, the last one by raising, and
\* the wrapper has returned
C26_Witness ==
    /\ pc = "retry"
    /\ retry.pc = "returned"
    /\ Len(retry.outcomes) = retry.max_retries
    /\ retry.max_retries >= 2
    /\ retry.outcomes[Len(retry.outcomes)] = "raise"
    /\ retry.outcomes[1] = "empty"

\* ========================================================================
\* Properties of BacktestMetrics (MetricsSpec)
\* ========================================================================
LedgerBuys == {t \in Range(account.trade_history) : t.direction = "buy"}
LedgerSells == {t \in Range(account.trade_history) : t.direction = "sell"}
Pairs == Range(result.complete_trades)
\* the pair of a ledger trade, if it has one
PairOfBuy(b, p) == p.ts_code = b.ts_code /\ p.buy_date = b.trade_date
PairOfSell(t, p) == p.ts_code = t.ts_code /\ p.sell_date = t.trade_date
\* sell t was taken by a buy of the symbol dated before d
TakenBefore(t, d) ==
    \E p \in Pairs : PairOfSell(t, p) /\ DateLess(p.buy_date, d)
\* the ledger with its trades in the order perm
Reordered(ledger, perm) == [i \in 1..Len(ledger) |-> ledger[perm[i]]]

\* C25: calc_all_metrics returns zero volatility and a zero risk-adjusted
\* ratio for a list of one daily record, and a zero win rate and a zero trade
\* count for a ledger without a sell.
C25_NeutralOnDegenerateInput ==
    result.computed =>
        /\ Len(account.daily_net_value) = 1 =>
              result.annual_vol = "zero" /\ result.sharpe_ratio = "zero"
        /\ (\A i \in 1..Len(account.trade_history) :
                account.trade_history[i].direction # "sell") =>
              result.win_rate = 0 /\ result.total_trade_times = 0

\* C24: every pair of the win-rate computation joins a buy and a sell of the
\* ledger of one symbol, the sell dated after the buy; no buy and no sell is
\* in two pairs; the sell of a pair is the earliest sell of the symbol dated
\* after the buy that no earlier buy has taken, and a buy without a pair has
\* no such sell; and the pairs are the same for every order of the ledger.
C24_PairsBySymbolAndDate ==
    pc = "metrics_done" =>
        /\ \A p \in Pairs :
              /\ \E b \in LedgerBuys : PairOfBuy(b, p) /\ p.buy_cost = b.total
              /\ \E t \in LedgerSells : PairOfSell(t, p) /\ p.sell_income = t.total
              /\ DateLess(p.buy_date, p.sell_date)
              /\ \A t \in LedgerSells :
                    (/\ t.ts_code = p.ts_code
                     /\ DateLess(p.buy_date, t.trade_date)
                     /\ DateLess(t.trade_date, p.sell_date))
                        => TakenBefore(t, p.buy_date)
        /\ \A i, j \in 1..Len(result.complete_trades) :
              LET p == result.complete_trades[i]
                  q == result.complete_trades[j]
              IN  i # j => /\ ~(p.ts_code = q.ts_code /\ p.sell_date = q.sell_date)
                           /\ ~(p.ts_code = q.ts_code /\ p.buy_date = q.buy_date)
        /\ \A b \in LedgerBuys :
              (~\E p \in Pairs : PairOfBuy(b, p))
                  => \A t \in LedgerSells :
                        (t.ts_code = b.ts_code /\ DateLess(b.trade_date, t.trade_date))
                            => TakenBefore(t, b.trade_date)
        /\ \A perm \in Perms(1..Len(account.trade_history)) :
              Range(_calc_complete_trades(Reordered(account.trade_history, perm))) = Pairs

\* a buy is paired with the earlier of two later sells of its symbol, which
\* stands after the later one in the ledger
C24_Witness ==
    /\ pc = "metrics_done"
    /\ \E i, j \in 1..Len(account.trade_history) :
          LET late == account.trade_history[i]
              early == account.trade_history[j]
          IN  /\ i < j
              /\ late.direction = "sell" /\ early.direction = "sell"
              /\ late.ts_code = early.ts_code
              /\ DateLess(early.trade_date, late.trade_date)
              /\ \E p \in Pairs : PairOfSell(early, p)
              /\ ~\E p \in Pairs : PairOfSell(late, p)

\* ========================================================================
\* Properties of the intraday cache (CacheSpec)
\* ========================================================================
\* C23 as stated: between two initializations the gateway is called at most
\* once for a key, every later request being answered from the cache; and
\* initialize() leaves the cache empty.
C23_OneGatewayCallPerKey ==
    /\ \A key \in CacheKeys : gateway_calls[key] <= 1
    /\ last_call.op = "initialize" => min_data_cache = {}

\* C23, amended: a key whose fetch returned a non-empty series is in the
\* cache with that series; a batch call answers a cached key with the cached
\* series and does not call the gateway for it; the gateway is called again
\* only for keys whose earlier fetches returned nothing or raised; and
\* initialize() leaves the cache empty.
C23_CachedKeysNotRefetched ==
    [][/\ last_call'.op = "_batch_get_min_df" =>
            \A key \in CacheKeys :
                LET cached == {e \in min_data_cache :
                                  e.ts_code = key[1] /\ e.trade_date = key[2]}
                IN  /\ cached # {} =>
                          /\ gateway_calls'[key] = gateway_calls[key]
                          /\ cached \subseteq min_data_cache'
                          /\ \A i \in 1..Len(last_call'.frame) :
                                (/\ last_call'.frame[i].ts_code = key[1]
                                 /\ last_call'.trade_date = key[2])
                                    => \A e \in cached : last_call'.frame[i].df = e.df
                    /\ gateway_calls'[key] > gateway_calls[key] =>
                          /\ cached = {}
                          /\ (min_src[key[1]] # <<>> /\ min_src[key[1]] # FetchError)
                                => \E e \in min_data_cache' :
                                      /\ e.ts_code = key[1] /\ e.trade_date = key[2]
                                      /\ e.df = min_src[key[1]]
                    /\ gateway_calls'[key] > 1 =>
                          (min_src[key[1]] = <<>> \/ min_src[key[1]] = FetchError)
       /\ last_call'.op = "initialize" => min_data_cache' = {}]_vars

\* a key was fetched once and is in the cache, another key of the same day
\* was fetched twice, and three batch calls have been made
C23_Witness ==
    /\ pc = "cache"
    /\ ncalls >= 3
    /\ \E k1, k2 \in CacheKeys :
          /\ k1[2] = k2[2]
          /\ gateway_calls[k1] = 1
          /\ \E e \in min_data_cache : e.ts_code = k1[1] /\ e.trade_date = k1[2]
          /\ gateway_calls[k2] >= 2

\* ========================================================================
\* Properties of calc_limit_up_price (LimitSpec)
\* ========================================================================
\* a step that is one call of calc_limit_up_price
LimitCallStep == pc = "limit" /\ Len(limit_out') = Len(limit_out) + 1

\* C19: for the main-board symbol 000002.SZ and a previous close of 2.35 the
\* strategy's calc_limit_up_price returns 2.59.
C19_MainBoard235 ==
    (/\ limit_in.impl = "strategy"
     /\ limit_in.ts_code = S_MAIN_A
     /\ limit_in.pre_close = 235
     /\ limit_out # <<>>)
        => limit_out[1] = 259

SellCallStep(ts) ==
    /\ ncalls' = ncalls + 1
    /\ last_call'.op = "sell"
    /\ last_call'.ts_code = ts

\* C1: T+1 settlement.  A sell call for a held symbol whose trade date is the
\* position's buy date returns False and leaves the position, the cash and
\* the ledger as they were, however many calls (of sell or of
\* update_daily_asset) came before it; a sell call whose trade date is later
\* than the buy date is not rejected: it returns True and closes the
\* position.
C1_TPlus1Settlement ==
    [][\A ts \in Symbols :
        (SellCallStep(ts) /\ Held(account.positions, ts)) =>
            LET pos == PosOf(account.positions, ts)
                d == _unify_date_format(last_call'.trade_date)
            IN  /\ (d = pos.buy_date) =>
                       /\ ~last_call'.ok
                       /\ Held(account'.positions, ts)
                       /\ PosOf(account'.positions, ts).buy_date = pos.buy_date
                       /\ PosOf(account'.positions, ts).buy_volume = pos.buy_volume
                       /\ account'.available_cash = account.available_cash
                       /\ account'.trade_history = account.trade_history
                /\ (d.ymd > pos.buy_date.ymd) =>
                       /\ last_call'.ok
                       /\ ~Held(account'.positions, ts)
    ]_vars

\* a same-day sell was just rejected, after update_daily_asset of that day
\* has already run on the open position and after an earlier call was made
C1_Witness ==
    /\ last_call.op = "sell"
    /\ ~last_call.ok
    /\ Held(account.positions, last_call.ts_code)
    /\ PosOf(account.positions, last_call.ts_code).buy_date
           = _unify_date_format(last_call.trade_date)
    /\ \E i \in 1..Len(account.daily_net_value) :
           /\ _unify_date_format(account.daily_net_value[i].trade_date)
                  = _unify_date_format(last_call.trade_date)
           /\ account.daily_net_value[i].position_count > 0
    /\ ncalls >= 3

\* C2: the number of open positions never exceeds max_position_count, after
\* any sequence of buy, sell and update_daily_asset calls.
C2_SlotBound ==
    /\ Len(account.positions) <= max_position_count
    /\ Cardinality(HeldSet(account.positions)) <= max_position_count

\* all slots are in use and a buy of a symbol not yet held was just refused
\* although the cash would have paid for one more lot
C2_Witness ==
    /\ last_call.op = "buy"
    /\ ~last_call.ok
    /\ ~Held(account.positions, last_call.ts_code)
    /\ Len(account.positions) = max_position_count
    /\ \E price \in ApiBuyPrices :
           account.available_cash
               >= MIN_TRADE_VOLUME * BuyActualPrice(price) + MIN_COMMISSION_YUAN * YUAN

\* a step of AccountSpec that is a call of op
CallStep(op) ==
    /\ ncalls' = ncalls + 1
    /\ last_call'.op = op

\* quote x (1 + slippage) and quote x (1 - slippage) for a quote in cents, the
\* slippage taken as a part of the quote
QuoteUp(price) == price * CENT + (price * CENT * SLIPPAGE_RATE_BP) \div BP
QuoteDown(price) == price * CENT - (price * CENT * SLIPPAGE_RATE_BP) \div BP

\* the whole lots that the cash of one slot pays for at a price per share: the
\* largest multiple of the lot size whose notional is within that cash
SlotQuantity(acct, per_share) ==
    LET fits(k) == k * per_share
                       <= acct.init_capital \div (MIN_TRADE_VOLUME * max_position_count)
        most == CHOOSE k \in 0..(acct.init_capital \div per_share) :
                    fits(k) /\ ~fits(k + 1)
    IN  most * MIN_TRADE_VOLUME

\* max(notional x rate, flat minimum)
FeeOf(notional) ==
    LET by_rate == (notional * COMMISSION_RATE_BP) \div BP
        flat == MIN_COMMISSION_YUAN * YUAN
    IN  IF by_rate > flat THEN by_rate ELSE flat

\* C11: a call of Account.buy returns True exactly when a slot is free, the
\* symbol is not held, the lot-floored quantity is at least one lot and the
\* total cost (post-slippage notional plus commission) is within the
\* available cash.  On True the cash goes down by exactly the total cost, one
\* position of the symbol is added with can_sell false and the trade date as
\* its entry date, and exactly one buy is appended to the ledger; on False
\* the account is left as it was.
C11_BuyContract ==
    [][CallStep("buy") =>
        LET ts == last_call'.ts_code
            quantity == SlotQuantity(account, QuoteUp(last_call'.price))
            notional == quantity * QuoteUp(last_call'.price)
            total_cost == notional + FeeOf(notional)
            accepted ==
                /\ Len(account.positions) < max_position_count
                /\ ts \notin HeldSet(account.positions)
                /\ quantity >= MIN_TRADE_VOLUME
                /\ total_cost <= account.available_cash
            old == account.trade_history
            new == account'.trade_history
        IN  /\ last_call'.ok <=> accepted
            /\ ~last_call'.ok => account' = account
            /\ last_call'.ok =>
                   /\ account'.available_cash = account.available_cash - total_cost
                   /\ Len(account'.positions) = Len(account.positions) + 1
                   /\ SubSeq(account'.positions, 1, Len(account.positions))
                          = account.positions
                   /\ LET position == account'.positions[Len(account'.positions)]
                      IN  /\ position.ts_code = ts
                          /\ ~position.can_sell
                          /\ position.buy_date.ymd = last_call'.trade_date.ymd
                          /\ position.buy_volume = quantity
                          /\ position.buy_total_cost = total_cost
                   /\ Len(new) = Len(old) + 1
                   /\ SubSeq(new, 1, Len(old)) = old
                   /\ new[Len(new)].direction = "buy"
                   /\ new[Len(new)].ts_code = ts
                   /\ new[Len(new)].volume = quantity
    ]_vars

\* a buy has just been refused for lack of cash alone, after a buy that was
\* filled: a slot is free, the symbol is not held and a lot fits the slot
C11_Witness ==
    /\ last_call.op = "buy"
    /\ ~last_call.ok
    /\ Len(account.positions) = 1
    /\ Len(account.trade_history) = 1
    /\ ~Held(account.positions, last_call.ts_code)
    /\ SlotQuantity(account, QuoteUp(last_call.price)) >= MIN_TRADE_VOLUME
    /\ account.available_cash < account.init_capital

\* |x - y| is at most half of step: x is y rounded to a multiple of step
RoundedTo(x, y, step) == 2 * (x - y) <= step /\ 2 * (y - x) <= step

\* C12: a call of Account.sell that returns True sells the whole quantity of
\* the position: the cash goes up by the net proceeds quantity x quote x
\* (1 - slippage) - commission - sell-side tax, the position is removed and
\* exactly one sell is appended to the ledger, for the whole quantity, whose
\* realized P&L is those net proceeds minus the total cost recorded at the
\* buy (commission included), to the cent.
C12_SellContract ==
    [][(CallStep("sell") /\ last_call'.ok) =>
        LET ts == last_call'.ts_code
            position == PosOf(account.positions, ts)
            notional == position.buy_volume * QuoteDown(last_call'.price)
            tax == notional \div (BP \div STAMP_DUTY_RATE_BP)
            proceeds == notional - FeeOf(notional) - tax
            old == account.trade_history
            new == account'.trade_history
        IN  /\ Held(account.positions, ts)
            /\ account'.available_cash = account.available_cash + proceeds
            /\ account'.positions
                   = SelectSeq(account.positions, LAMBDA q : q.ts_code # ts)
            /\ Len(new) = Len(old) + 1
            /\ SubSeq(new, 1, Len(old)) = old
            /\ new[Len(new)].direction = "sell"
            /\ new[Len(new)].ts_code = ts
            /\ new[Len(new)].volume = position.buy_volume
            /\ RoundedTo(new[Len(new)].pnl * CENT,
                         proceeds - position.buy_total_cost, CENT)
    ]_vars

\* a position was sold for less than the flat commission: negative proceeds,
\* a realized loss larger than the cost of the buy
C12_Witness ==
    /\ last_call.op = "sell"
    /\ last_call.ok
    /\ ~Held(account.positions, last_call.ts_code)
    /\ LET trade == account.trade_history[Len(account.trade_history)]
       IN  /\ trade.direction = "sell"
           /\ trade.total < 0
           /\ trade.pnl < trade.total

\* the quantity named in C13: the lot size times the largest whole k with
\* k x lot size x quote x (1 + slippage) <= capital / slots
FloorQuantity(capital, slots, per_share) ==
    LET fits(k) == k * per_share <= capital \div (MIN_TRADE_VOLUME * slots)
        most == CHOOSE k \in 0..(capital \div per_share) : fits(k) /\ ~fits(k + 1)
    IN  most * MIN_TRADE_VOLUME

\* the example of C13 in units of 1/BP yuan: capital 100000, 5 slots, price
\* 10, slippage 0.001, rate 0.0001 fill 1900 shares at the flat commission
C13_Example ==
    LET capital == 100000 * BP
        actual_price == 10 * (BP + SLIPPAGE_RATE_BP)
        quantity == LotFloor(capital, 5, actual_price)
        flat == MIN_COMMISSION_YUAN * BP
    IN  /\ quantity = 1900
        /\ CommissionOf(quantity * actual_price, flat) = flat

\* C13: the quantity filled by Account.buy is floor(per-slot cash / (quote x
\* (1 + slippage) x lot size)) x lot size with per-slot cash = initial capital
\* / slot count; it is a positive multiple of the lot size; when that
\* quantity is below one lot the buy is refused and nothing is filled; the
\* commission is max(notional x rate, flat minimum); and the example (100000,
\* 5 slots, price 10) fills 1900 shares at the flat minimum.
C13_LotQuantity ==
    [][CallStep("buy") =>
            LET per_share == QuoteUp(last_call'.price)
                quantity == FloorQuantity(account.init_capital, max_position_count,
                                          per_share)
                new == account'.trade_history
            IN  /\ C13_Example
                /\ quantity < MIN_TRADE_VOLUME =>
                       ~last_call'.ok /\ account' = account
                /\ last_call'.ok =>
                       /\ new[Len(new)].volume = quantity
                       /\ quantity > 0
                       /\ quantity % MIN_TRADE_VOLUME = 0
                       /\ RoundedTo(new[Len(new)].commission * CENT,
                                    FeeOf(quantity * per_share), CENT)
                       /\ account.available_cash - account'.available_cash
                              = quantity * per_share + FeeOf(quantity * per_share)
    ]_vars

\* a buy was filled with a quantity floored to the lot (the cash of the slot
\* would pay for more than the lots bought, but not for one lot more), and
\* a buy whose quantity is below one lot was refused
C13_Witness ==
    /\ last_call.op = "buy"
    /\ ~last_call.ok
    /\ FloorQuantity(account.init_capital, max_position_count,
                     QuoteUp(last_call.price)) = 0
    /\ account.positions # <<>>
    /\ LET position == account.positions[1]
       IN  /\ position.buy_volume >= MIN_TRADE_VOLUME
           /\ position.buy_volume * position.buy_price * max_position_count
                  < account.init_capital

\* worth of one symbol at the close of a frame: quantity x close of its bar,
\* quantity x entry price when the frame has no bar of it, 0 when not held
WorthOf(positions, frame, ts) ==
    IF ~Held(positions, ts) THEN 0
    ELSE LET position == PosOf(positions, ts)
             bars == {i \in 1..Len(frame) : frame[i].ts_code = ts}
         IN  IF bars = {} THEN position.buy_volume * position.buy_price
             ELSE position.buy_volume
                      * frame[CHOOSE i \in bars : \A j \in bars : i <= j].close * CENT

C3_CashNonNegative ==
    account.available_cash >= 0

PhaseRank(phase) ==
    CASE phase = "open_sells" -> 1
      [] phase = "close_sells" -> 2
      [] phase = "buys" -> 3
      [] OTHER -> 4

\* the ledger entries i < j were filled on the same trade date
SameDayFills(i, j) ==
    /\ i \in 1..Len(account.trade_history)
    /\ j \in 1..Len(account.trade_history)
    /\ i < j
    /\ account.trade_history[i].trade_date = account.trade_history[j].trade_date

\* C4 as stated: within a trading day the fills come in the order carried-over
\* "open" sells, "close" sells, buys (the final liquidation last): no fill of
\* the buy step precedes a fill of the "close" sell step on the same date.
C4_CloseSellsBeforeBuys ==
    \A i, j \in 1..Len(account.trade_history) :
        SameDayFills(i, j) => PhaseRank(fill_phase[i]) <= PhaseRank(fill_phase[j])

CodeRank(phase) ==
    CASE phase = "open_sells" -> 1
      [] phase = "buys" -> 2
      [] phase = "close_sells" -> 3
      [] OTHER -> 4

\* C4 amended: within a trading day the fills come in the fixed order
\* carried-over "open" sells, buys, "close" sells (the final liquidation
\* last); each step fills only its own kind of order; and the steps of a day
\* follow each other as open sells, signal query, buys, close sells,
\* mark-to-market.
C4_FixedStepOrder ==
    /\ Len(fill_phase) = Len(account.trade_history)
    /\ \A i, j \in 1..Len(account.trade_history) :
           SameDayFills(i, j) => CodeRank(fill_phase[i]) <= CodeRank(fill_phase[j])
    /\ \A i \in 1..Len(account.trade_history) :
           (fill_phase[i] = "buys") <=> (account.trade_history[i].direction = "buy")
    /\ pc = "close_sells" =>
           \A i \in 1..Len(account.trade_history) :
               account.trade_history[i].trade_date = trade_dates[idx]
                   => fill_phase[i] \in {"open_sells", "buys"}
    /\ pc = "buys" =>
           \A i \in 1..Len(account.trade_history) :
               account.trade_history[i].trade_date = trade_dates[idx]
                   => fill_phase[i] = "open_sells"

\* a day on which a buy was filled and then a "close" sell was filled
C4_Witness ==
    \E i, j \in 1..Len(account.trade_history) :
        /\ SameDayFills(i, j)
        /\ fill_phase[i] = "buys"
        /\ fill_phase[j] = "close_sells"

\* C5: when run() has finished the account holds no open position.
C5_NoOpenPositionAtEnd ==
    pc = "done" => account.positions = <<>>

\* C9: the net asset records have strictly increasing trade dates: one record
\* for a day, no date twice.
C9_OneRecordPerDay ==
    \A i, j \in 1..Len(account.daily_net_value) :
        i < j => account.daily_net_value[i].trade_date.ymd
                     < account.daily_net_value[j].trade_date.ymd

\* C15: a position bought on the day in hand whose close of that day is
\* below limit x tolerance has an "open" sell signal by the end of the day's
\* steps, to be executed at the next day's open.
C15_OpenSellAfterFailedLimitUp ==
    pc = "mark" =>
        \A i \in 1..Len(account.positions) :
            LET position == account.positions[i]
                ts == position.ts_code
            IN  (/\ position.buy_date = _unify_date_format(trade_dates[idx])
                 /\ HasRow(daily_df, ts)
                 /\ ~AtLimit(RowOf(daily_df, ts).close,
                             calc_limit_up_price(ts, RowOf(daily_df, ts).pre_close)))
                => \E k \in 1..Len(sell_signal_map) :
                       sell_signal_map[k] = [ts_code |-> ts, sell_type |-> "open"]

\* what of a position is quantity and cost
Holding(position) ==
    [ts_code |-> position.ts_code, buy_volume |-> position.buy_volume,
     buy_price |-> position.buy_price, buy_total_cost |-> position.buy_total_cost,
     buy_date |-> position.buy_date]

\* a call of Account.buy or Account.sell that returned False
RejectedStep ==
    (/\ pc = "api"
     /\ ncalls' = ncalls + 1
     /\ last_call'.op \in {"buy", "sell"}
     /\ ~last_call'.ok)
        => /\ account'.available_cash = account.available_cash
           /\ Len(account'.positions) = Len(account.positions)
           /\ \A i \in 1..Len(account.positions) :
                  Holding(account'.positions[i]) = Holding(account.positions[i])
           /\ account'.trade_history = account.trade_history
           /\ account'.daily_net_value = account.daily_net_value

\* C29: a call of Account.buy or Account.sell that returns False leaves the
\* available cash, the positions with their quantities and costs, the trade
\* ledger and the list of daily records exactly as they were.
C29_RejectedOrderChangesNothing == [][RejectedStep]_vars

\* a sell of a held position was rejected (bought the same day), with a buy
\* in the ledger and a daily record written
C29_Witness ==
    /\ pc = "api"
    /\ last_call.op = "sell"
    /\ ~last_call.ok
    /\ Held(account.positions, last_call.ts_code)
    /\ Len(account.trade_history) >= 1
    /\ Len(account.daily_net_value) >= 1

\* the sell records for ts among the ledger entries after the first n
SellsAfter(acct, n, ts) ==
    {k \in (n + 1)..Len(acct.trade_history) :
        /\ acct.trade_history[k].ts_code = ts
        /\ acct.trade_history[k].direction = "sell"}

\* one step of a day seen from a position bought on an earlier day
HoldStep ==
    pc \in {"open_sells", "signal", "buys", "close_sells"} =>
        \A i \in 1..Len(account.positions) :
            LET position == account.positions[i]
                ts == position.ts_code
                today == trade_dates[idx]
                row == RowOf(daily_df, ts)
                n == Len(account.trade_history)
            IN  (position.buy_date.ymd < today.ymd /\ HasRow(daily_df, ts)) =>
                  IF AtLimit(row.close, calc_limit_up_price(ts, row.pre_close))
                  THEN /\ Held(account'.positions, ts)
                       /\ PosOf(account'.positions, ts).buy_volume = position.buy_volume
                       /\ SellsAfter(account', n, ts) = {}
                       /\ \A k \in 1..Len(sell_signal_map') :
                              pc # "open_sells" => sell_signal_map'[k].ts_code # ts
                  ELSE IF pc = "close_sells"
                  THEN /\ ~Held(account'.positions, ts)
                       /\ \E k \in SellsAfter(account', n, ts) :
                              /\ SellsAfter(account', n, ts) = {k}
                              /\ account'.trade_history[k].trade_date.ymd = today.ymd
                              /\ account'.trade_history[k].volume = position.buy_volume
                              /\ account'.trade_history[k].price
                                     = Round4((row.close * CENT)
                                                - ((row.close * CENT) \div BP) * SLIPPAGE_RATE_BP)
                  ELSE /\ Held(account'.positions, ts)
                       /\ SellsAfter(account', n, ts) = {}
                       /\ pc # "open_sells" =>
                              \E k \in 1..Len(sell_signal_map') :
                                  sell_signal_map'[k] = [ts_code |-> ts, sell_type |-> "close"]

LoadStep ==
    pc = "load" =>
        /\ account' = account
        /\ sell_signal_map' = sell_signal_map
        /\ fill_phase' = fill_phase
        /\ IF daily_df' = <<>>
           THEN idx' = idx + 1 /\ pc' \in {"load", "liquidate"}
           ELSE idx' = idx /\ pc' = "open_sells"

C16_RunNeverRaises ==
    pc # "raised"

\* C17: the signal query of a day gives the same buy list, the same sell
\* signals and the same cache for every order in which the intraday fetches
\* of the worker pool finish, so that the fills and records that follow are
\* the same as well.
C17_FetchOrderIndependent ==
    [][(pc = "signal" /\ pc' # "signal") =>
        \A completion \in Completions :
            LET sig == generate_signal(trade_dates[idx], daily_df, account.positions,
                                       min_data_cache, min_src, completion)
            IN  /\ sig.buy_stocks = buy_stocks'
                /\ sig.sell_signal_map = sell_signal_map'
                /\ sig.cache = min_data_cache'
    ]_vars

\* a signal query has filled the one free slot from two candidates that were
\* fetched concurrently and have the same entry instant
C17_Witness ==
    /\ pc = "buys"
    /\ Len(buy_stocks) = 1
    /\ Len(account.positions) = max_position_count - 1
    /\ \E i, j \in 1..Len(daily_df) :
           /\ i # j
           /\ IsCandidate(daily_df[i]) /\ IsCandidate(daily_df[j])
           /\ daily_df[i].ts_code = buy_stocks[1]
           /\ EntryTime(daily_df[i], min_src[daily_df[i].ts_code]) # NoTime
           /\ EntryTime(daily_df[i], min_src[daily_df[i].ts_code])
                  = EntryTime(daily_df[j], min_src[daily_df[j].ts_code])

\* C18: no lookahead.  Every query for daily or intraday bars made while the
\* run is on day number day of the calendar (the liquidation and the final
\* mark are on the last day) selects rows of that calendar day or of an
\* earlier one, and the intraday frames the strategy keeps in its cache are
\* of the days processed so far.
C18_NoLookahead ==
    /\ \A r \in bar_reads : r.date <= trade_dates[r.day].ymd
    /\ \A e \in min_data_cache :
          \E r \in bar_reads : e.trade_date.ymd = r.date /\ r.date <= trade_dates[r.day].ymd

\* a finished run that queried the bars of every day of the calendar and
\* fetched intraday bars on the way
C18_Witness ==
    /\ pc = "done"
    /\ \A i \in 1..NumDays : \E r \in bar_reads : r.day = i
    /\ min_data_cache # {}
    /\ account.trade_history # <<>>

\* C21: when the calendar fetched for the range is empty or has no open day,
\* the construction of the engine raises: the run never starts, no bars are
\* queried and the ledger and the list of daily records stay empty.
C21_NoCalendarNoRun ==
    (raw_cal = <<>> \/ \A i \in 1..Len(raw_cal) : raw_cal[i].is_open # 1)
        => /\ pc \in {"new", "init_raised"}
           /\ account.trade_history = <<>>
           /\ account.daily_net_value = <<>>
           /\ bar_reads = {}

\* the construction has raised on a calendar that has rows, none of them open
C21_Witness ==
    /\ pc = "init_raised"
    /\ raw_cal # <<>>
    /\ \A i \in 1..Len(raw_cal) : raw_cal[i].is_open = 0

\* the ledger entries of one symbol, in ledger order
TradesOf(history, ts) ==
    SelectSeq(history, LAMBDA t : t.ts_code = ts)

\* buys and sells alternate, starting with a buy
Alternates(trades) ==
    \A i \in 1..Len(trades) :
        trades[i].direction = (IF i % 2 = 1 THEN "buy" ELSE "sell")

LedgerConsistent ==
    /\ Len(account.positions) = Cardinality(HeldSet(account.positions))
    /\ \A ts \in Symbols :
           LET trades == TradesOf(account.trade_history, ts)
           IN  /\ Alternates(trades)
               /\ Held(account.positions, ts)
                      <=> (trades # <<>> /\ trades[Len(trades)].direction = "buy")

LedgerStep ==
    LET old == account.trade_history
        new == account'.trade_history
        added == SubSeq(new, Len(old) + 1, Len(new))
    IN  /\ Len(new) >= Len(old)
        /\ SubSeq(new, 1, Len(old)) = old
        /\ \A ts \in Symbols :
               /\ (~Held(account.positions, ts) /\ Held(account'.positions, ts))
                      => \E k \in 1..Len(added) :
                             added[k].ts_code = ts /\ added[k].direction = "buy"
               /\ (Held(account.positions, ts) /\ ~Held(account'.positions, ts))
                      => \E k \in 1..Len(added) :
                             added[k].ts_code = ts /\ added[k].direction = "sell"

\* C10: at every point of a run the held symbols are the symbols whose last
\* ledger entry is a buy; per symbol the ledger alternates buy, sell, buy, ...
\* and no symbol has two positions; a position appears only in a step that
\* appends a buy of it and disappears only in a step that appends a sell of
\* it; the ledger only grows at its end.
C10_LedgerConsistency ==
    []LedgerConsistent /\ [][LedgerStep]_vars

\* on the second day a symbol bought on the first day is on the buy list again
\* and is still held through its one position, while another symbol has been
\* bought and sold
C10_Witness ==
    \E a, b \in Symbols :
        /\ a # b
        /\ idx = 2
        /\ pc = "mark"
        /\ \E k \in 1..Len(buy_stocks) : buy_stocks[k] = a
        /\ Len(TradesOf(account.trade_history, a)) = 1
        /\ Held(account.positions, a)
        /\ Len(TradesOf(account.trade_history, b)) = 2
        /\ ~Held(account.positions, b)


\* ========================================================================
\* Properties of select_buy_stocks (SelSpec)
\* ========================================================================
InBuyList(ts) == \E k \in 1..Len(buy_stocks) : buy_stocks[k] = ts
InHits(ts) == \E k \in 1..Len(hits) : hits[k].ts_code = ts
HitTime(ts) == (CHOOSE h \in Range(hits) : h.ts_code = ts).t
RowIndex(ts) == CHOOSE i \in 1..Len(daily_df) : daily_df[i].ts_code = ts

\* bar b is bar a itself or the bar that follows a in time
SameOrNextBar(min_df, a, b) ==
    \/ a = b
    \/ /\ a.trade_time < b.trade_time
       /\ ~\E c \in Range(min_df) :
              a.trade_time < c.trade_time /\ c.trade_time < b.trade_time

\* timestamps of the reseal bars of a trace: a close at the limit in the bar
\* of a low below the limit, or in the bar after it
ResealTimes(min_df, limit_price) ==
    {b.trade_time : b \in
        {x \in Range(min_df) :
            /\ AtLimit(x.close, limit_price)
            /\ \E a \in Range(min_df) :
                   ~AtLimit(a.low, limit_price) /\ SameOrNextBar(min_df, a, x)}}

Earliest(times) == CHOOSE t \in times : \A u \in times : t <= u

\* C6: a symbol whose daily open is at the limit (open >= limit x tolerance)
\* is retained, and is on the buy list, only if its intraday trace has a
\* reseal bar; its entry instant is then the timestamp of the earliest reseal
\* bar.
C6_GapLockReseal ==
    pc = "selected" =>
        \A i \in 1..Len(daily_df) :
            LET row == daily_df[i]
                ts == row.ts_code
                limit_price == calc_limit_up_price(ts, row.pre_close)
                reseals == ResealTimes(min_src[ts], limit_price)
            IN  AtLimit(row.open, limit_price) =>
                    /\ InBuyList(ts) => InHits(ts)
                    /\ InHits(ts) =>
                           /\ reseals # {}
                           /\ HitTime(ts) = Earliest(reseals)

\* the gap-locked symbol is bought at bar 3: locked in bar 1, dip without
\* reseal in bar 2, reseal in bar 3, the rows arriving latest first
C6_Witness ==
    /\ pc = "selected"
    /\ InBuyList(FreeSymbol)
    /\ \E i \in 1..Len(daily_df) :
           /\ daily_df[i].ts_code = FreeSymbol
           /\ AtLimit(daily_df[i].open,
                      calc_limit_up_price(FreeSymbol, daily_df[i].pre_close))
    /\ HitTime(FreeSymbol) = 3
    /\ LET df == min_src[FreeSymbol]
           L == calc_limit_up_price(FreeSymbol, PreClose)
       IN  /\ Len(df) = 3
           /\ df[1].trade_time = 3
           /\ AtLimit(df[3].low, L)
           /\ ~AtLimit(df[2].low, L) /\ ~AtLimit(df[2].close, L)
           /\ AtLimit(df[1].close, L)

\* C7: every symbol on the returned buy list has a daily row whose high is at
\* least limit x tolerance, limit being the limit price computed from the
\* row's previous close.
C7_HighAtLimit ==
    pc = "selected" =>
        \A k \in 1..Len(buy_stocks) :
            \E i \in 1..Len(daily_df) :
                /\ daily_df[i].ts_code = buy_stocks[k]
                /\ daily_df[i].pre_close > 0
                /\ AtLimit(daily_df[i].high,
                           calc_limit_up_price(buy_stocks[k], daily_df[i].pre_close))

\* a symbol whose trace gives an entry instant is left out of a buy list that
\* has room for it, its daily high being below the limit
C7_Witness ==
    /\ pc = "selected"
    /\ buy_stocks # <<>>
    /\ Len(buy_stocks) < available_pos
    /\ \E i \in 1..Len(daily_df) :
           LET row == daily_df[i]
           IN  /\ row.pre_close > 0
               /\ ~AtLimit(row.high, calc_limit_up_price(row.ts_code, row.pre_close))
               /\ EntryTime(row, min_src[row.ts_code]) # NoTime
               /\ ~InBuyList(row.ts_code)

\* C22: when the fetch of a candidate's intraday series raises, that
\* candidate gets no entry in hits and is not on the buy list, every other
\* candidate whose series gives an entry instant is in hits with that
\* instant, and the call returns the first available_pos of them.
C22_FetchFailureIsLocal ==
    (/\ pc = "selected"
     /\ available_pos > 0
     /\ \E i \in 1..Len(daily_df) :
           IsCandidate(daily_df[i]) /\ FetchRaises(daily_df[i].ts_code, min_src))
        => /\ \A i \in 1..Len(daily_df) :
                 LET row == daily_df[i]
                 IN  IsCandidate(row) =>
                       IF FetchRaises(row.ts_code, min_src)
                       THEN ~InHits(row.ts_code) /\ ~InBuyList(row.ts_code)
                       ELSE IF EntryTime(row, min_src[row.ts_code]) # NoTime
                            THEN /\ InHits(row.ts_code)
                                 /\ HitTime(row.ts_code)
                                        = EntryTime(row, min_src[row.ts_code])
                            ELSE ~InHits(row.ts_code)
           /\ Len(buy_stocks) = Min(available_pos, Len(hits))

\* a fetch raised for one candidate and two other candidates are on the
\* returned buy list
C22_Witness ==
    /\ pc = "selected"
    /\ \E i \in 1..Len(daily_df) :
           IsCandidate(daily_df[i]) /\ FetchRaises(daily_df[i].ts_code, min_src)
    /\ Len(buy_stocks) = 2

\* the times of the bars of a series whose high is at the limit
TouchTimes(series, limit_price) ==
    {series[i].trade_time : i \in {k \in 1..Len(series) :
                                      AtLimit(series[k].high, limit_price)}}

\* C27: for a candidate whose daily open is below limit x tolerance, the
\* instant entered into hits is the earliest trade_time among the intraday
\* bars whose high is at or above limit x tolerance, in whatever order the
\* rows of the series come; when no bar qualifies the symbol has no entry
\* and is not on the buy list.
C27_FirstTouchIsChronological ==
    (pc = "selected" /\ available_pos > 0)
        => \A i \in 1..Len(daily_df) :
              LET row == daily_df[i]
                  limit_price == limit_up_price_col(row)
                  series == IF FetchRaises(row.ts_code, min_src) THEN <<>>
                            ELSE min_src[row.ts_code]
                  touches == TouchTimes(series, limit_price)
              IN  (IsCandidate(row) /\ ~AtLimit(row.open, limit_price))
                    => IF touches = {}
                       THEN ~InHits(row.ts_code) /\ ~InBuyList(row.ts_code)
                       ELSE /\ InHits(row.ts_code)
                            /\ HitTime(row.ts_code) \in touches
                            /\ \A t \in touches : HitTime(row.ts_code) <= t

\* a candidate not opening at the limit whose series comes latest bar first,
\* with two bars touching the limit: the entry is the time of the last row
C27_Witness ==
    /\ pc = "selected"
    /\ \E i \in 1..Len(daily_df) :
          LET row == daily_df[i]
              limit_price == limit_up_price_col(row)
              series == min_src[row.ts_code]
          IN  /\ IsCandidate(row)
              /\ ~AtLimit(row.open, limit_price)
              /\ Len(series) >= 2
              /\ series[1].trade_time > series[Len(series)].trade_time
              /\ AtLimit(series[1].high, limit_price)
              /\ AtLimit(series[Len(series)].high, limit_price)
              /\ InHits(row.ts_code)
              /\ HitTime(row.ts_code) = series[Len(series)].trade_time
              /\ InBuyList(row.ts_code)

\* the buy list is the first available_pos retained candidates in the order
\* given by Before, which no two of them may violate
RankedBy(Before(_, _)) ==
    /\ Len(buy_stocks) = Min(available_pos, Len(hits))
    /\ \A k \in 1..Len(buy_stocks) : InHits(buy_stocks[k])
    /\ \A i, j \in 1..Len(buy_stocks) :
           i < j => Before(buy_stocks[i], buy_stocks[j])
    /\ \A k \in 1..Len(buy_stocks), h \in 1..Len(hits) :
           ~InBuyList(hits[h].ts_code) => Before(buy_stocks[k], hits[h].ts_code)

ByTimeThenSymbol(a, b) ==
    \/ HitTime(a) < HitTime(b)
    \/ HitTime(a) = HitTime(b) /\ SymLess(a, b)

ByTimeThenRow(a, b) ==
    \/ HitTime(a) < HitTime(b)
    \/ HitTime(a) = HitTime(b) /\ RowIndex(a) < RowIndex(b)

\* C8 as stated: the buy list is the retained candidates sorted by entry
\* instant ascending, equal entry instants ordered by symbol, cut to the
\* number of free slots.
C8_TiesBySymbol ==
    pc = "selected" => RankedBy(ByTimeThenSymbol)

\* C8 amended: the buy list is the retained candidates sorted by entry
\* instant ascending, equal entry instants kept in the order of their rows in
\* the daily frame, cut to the number of free slots.
C8_TiesByRowOrder ==
    pc = "selected" => RankedBy(ByTimeThenRow)

\* two retained candidates have the same entry instant, the one with the
\* larger symbol comes first in the daily frame, and only one slot is free
C8_Witness ==
    /\ pc = "selected"
    /\ available_pos = 1
    /\ \E a, b \in Symbols :
           /\ InHits(a) /\ InHits(b)
           /\ HitTime(a) = HitTime(b)
           /\ SymLess(b, a)
           /\ RowIndex(a) < RowIndex(b)
           /\ buy_stocks = <<a>>

====
